---- MODULE Spec2Model ----
(***************************************************************************)
(* PDF generation of a chat response: the glyph normalizer and the         *)
(* markdown-subset parser of src/utils/pdfTextFormatter.js, its layout     *)
(* engine, and the block sequencer downloadMessagePDF of                   *)
(* src/components/ChatResponse.js.                                         *)
(*                                                                         *)
(* Strings are sequences of UTF-16 code units (naturals), as JavaScript    *)
(* strings are.  Lengths are in half millimetres (the code's 6.5 mm line   *)
(* height is 13), written Mm(x) for the code's x mm.                       *)
(***************************************************************************)
EXTENDS Integers, Sequences, FiniteSets, TLC

VARIABLES
   norm,    \* the normalizer's input and its results
   parse,   \* the parser's input and its result
   fmt,     \* a call of parseFormattedText and addFormattedText on its own
   ids      \* the props of two responses and their prefixed section ids

----------------------------------------------------------------------------
(* Strings.                                                                *)

\* JavaScript's undefined, as a value no string equals.
Undefined == <<-1>>

\* !text of JavaScript for a string or undefined.
Falsy(text) == text = Undefined \/ text = <<>>

\* s.substring(i - 1, j) with 1-based inclusive bounds, clipped as JavaScript does.
Sub(s, i, j) == IF i > j \/ i > Len(s) THEN <<>>
                ELSE SubSeq(s, i, IF j > Len(s) THEN Len(s) ELSE j)

\* Whether s holds key at position i.
StartsAt(s, key, i) == /\ i + Len(key) - 1 <= Len(s)
                       /\ SubSeq(s, i, i + Len(key) - 1) = key

----------------------------------------------------------------------------
(* 4.1 Emoji/glyph normalizer.                                             *)

EMOJI_REPLACEMENTS ==
   <<
      [emoji |-> <<55357, 56508>>, text |-> <<91, 66, 114, 105, 101, 102, 99, 97, 115, 101, 93, 32>>],   \* [Briefcase]
      [emoji |-> <<55356, 57263>>, text |-> <<91, 84, 97, 114, 103, 101, 116, 93, 32>>],   \* [Target]
      [emoji |-> <<55357, 56522>>, text |-> <<91, 67, 104, 97, 114, 116, 93, 32>>],   \* [Chart]
      [emoji |-> <<55357, 56520>>, text |-> <<91, 84, 114, 101, 110, 100, 105, 110, 103, 32, 85, 112, 93, 32>>],   \* [Trending Up]
      [emoji |-> <<55357, 56521>>, text |-> <<91, 84, 114, 101, 110, 100, 105, 110, 103, 32, 68, 111, 119, 110, 93, 32>>],   \* [Trending Down]
      [emoji |-> <<9989>>, text |-> <<91, 67, 104, 101, 99, 107, 93, 32>>],   \* [Check]
      [emoji |-> <<10060>>, text |-> <<91, 88, 93, 32>>],   \* [X]
      [emoji |-> <<9888, 65039>>, text |-> <<91, 87, 97, 114, 110, 105, 110, 103, 93, 32>>],   \* [Warning]
      [emoji |-> <<55357, 56481>>, text |-> <<91, 73, 100, 101, 97, 93, 32>>],   \* [Idea]
      [emoji |-> <<55357, 56589>>, text |-> <<91, 83, 101, 97, 114, 99, 104, 93, 32>>],   \* [Search]
      [emoji |-> <<55357, 56541>>, text |-> <<91, 78, 111, 116, 101, 93, 32>>],   \* [Note]
      [emoji |-> <<55357, 56960>>, text |-> <<91, 82, 111, 99, 107, 101, 116, 93, 32>>],   \* [Rocket]
      [emoji |-> <<11088>>, text |-> <<91, 83, 116, 97, 114, 93, 32>>],   \* [Star]
      [emoji |-> <<55357, 56397>>, text |-> <<91, 84, 104, 117, 109, 98, 115, 32, 85, 112, 93, 32>>],   \* [Thumbs Up]
      [emoji |-> <<55357, 56398>>, text |-> <<91, 84, 104, 117, 109, 98, 115, 32, 68, 111, 119, 110, 93, 32>>],   \* [Thumbs Down]
      [emoji |-> <<55357, 56613>>, text |-> <<91, 70, 105, 114, 101, 93, 32>>],   \* [Fire]
      [emoji |-> <<55357, 56496>>, text |-> <<91, 77, 111, 110, 101, 121, 93, 32>>],   \* [Money]
      [emoji |-> <<55357, 56561>>, text |-> <<91, 80, 104, 111, 110, 101, 93, 32>>],   \* [Phone]
      [emoji |-> <<55357, 56507>>, text |-> <<91, 67, 111, 109, 112, 117, 116, 101, 114, 93, 32>>],   \* [Computer]
      [emoji |-> <<55356, 57119>>, text |-> <<91, 83, 116, 97, 114, 93, 32>>],   \* [Star]
      [emoji |-> <<55357, 56517>>, text |-> <<91, 67, 97, 108, 101, 110, 100, 97, 114, 93, 32>>],   \* [Calendar]
      [emoji |-> <<55356, 57225>>, text |-> <<91, 80, 97, 114, 116, 121, 93, 32>>],   \* [Party]
      [emoji |-> <<9200>>, text |-> <<91, 67, 108, 111, 99, 107, 93, 32>>],   \* [Clock]
      [emoji |-> <<55357, 56551>>, text |-> <<91, 69, 109, 97, 105, 108, 93, 32>>],   \* [Email]
      [emoji |-> <<55357, 56596>>, text |-> <<91, 66, 101, 108, 108, 93, 32>>],   \* [Bell]
      [emoji |-> <<55357, 56524>>, text |-> <<91, 80, 105, 110, 93, 32>>],   \* [Pin]
      [emoji |-> <<55357, 56529>>, text |-> <<91, 68, 111, 99, 117, 109, 101, 110, 116, 93, 32>>],   \* [Document]
      [emoji |-> <<55358, 56679>>, text |-> <<91, 80, 105, 101, 93, 32>>],   \* [Pie]
      [emoji |-> <<55357, 56528>>, text |-> <<91, 82, 117, 108, 101, 114, 93, 32>>],   \* [Ruler]
      [emoji |-> <<55356, 57286>>, text |-> <<91, 84, 114, 111, 112, 104, 121, 93, 32>>],   \* [Trophy]
      [emoji |-> <<9997, 65039>>, text |-> <<91, 87, 114, 105, 116, 105, 110, 103, 93, 32>>],   \* [Writing]
      [emoji |-> <<55357, 56523>>, text |-> <<91, 67, 108, 105, 112, 98, 111, 97, 114, 100, 93, 32>>],   \* [Clipboard]
      [emoji |-> <<55357, 56826, 65039>>, text |-> <<91, 77, 97, 112, 93, 32>>]   \* [Map]
   >>

\* result.split(emoji).join(text): every leftmost non-overlapping occurrence.
\* From position i: the units up to the leftmost occurrence of emoji at or
\* after i, then text, then the rest from behind that occurrence.
RECURSIVE SplitJoinFrom(_, _, _, _)
SplitJoinFrom(s, emoji, text, i) ==
   LET found == {j \in i .. Len(s) : StartsAt(s, emoji, j)}
   IN  IF found = {} THEN SubSeq(s, i, Len(s))
       ELSE LET j == CHOOSE j \in found : \A h \in found : j <= h
            IN  SubSeq(s, i, j - 1) \o text
                   \o SplitJoinFrom(s, emoji, text, j + Len(emoji))

SplitJoin(s, emoji, text) == SplitJoinFrom(s, emoji, text, 1)

\* Object.keys(EMOJI_REPLACEMENTS).forEach: the entries lo .. hi applied in
\* insertion order, each to the result of the one before.  The range is
\* halved rather than walked entry by entry: the order of the replacements
\* is the same and the evaluation stays shallow.
RECURSIVE ReplaceListed(_, _, _)
ReplaceListed(s, lo, hi) ==
   IF lo > hi THEN s
   ELSE IF lo = hi
   THEN SplitJoin(s, EMOJI_REPLACEMENTS[lo].emoji, EMOJI_REPLACEMENTS[lo].text)
   ELSE LET mid == (lo + hi) \div 2
            result == ReplaceListed(s, lo, mid)
        IN  IF result = s THEN ReplaceListed(s, mid + 1, hi)
            ELSE ReplaceListed(result, mid + 1, hi)

IsHighSurrogate(u) == u >= 55296 /\ u <= 56319
IsLowSurrogate(u) == u >= 56320 /\ u <= 57343

\* The code point a u-flag regular expression reads at position i: a high
\* surrogate followed by a low one is one code point, anything else (a lone
\* surrogate too) is the code unit itself.
IsPairAt(s, i) == /\ i < Len(s)
                  /\ IsHighSurrogate(s[i])
                  /\ IsLowSurrogate(s[i + 1])

CodePointAt(s, i) ==
   IF IsPairAt(s, i)
   THEN 65536 + (s[i] - 55296) * 1024 + (s[i + 1] - 56320)
   ELSE s[i]

\* [\u{1F300}-\u{1F9FF}]|[\u{2600}-\u{26FF}]|[\u{2700}-\u{27BF}]
InStrippedRange(cp) == \/ cp >= 127744 /\ cp <= 129535
                       \/ cp >= 9728 /\ cp <= 9983
                       \/ cp >= 9984 /\ cp <= 10175

\* A match of the expression starts at position j: a code point of the
\* ranges that is not the second half of a surrogate pair.
StripsAt(s, j) ==
   /\ ~(j > 1 /\ IsPairAt(s, j - 1))
   /\ InStrippedRange(CodePointAt(s, j))

\* result.replace(/.../gu, ''): from position i, the units up to the next
\* match, then the rest from behind the match.
RECURSIVE StripFrom(_, _)
StripFrom(s, i) ==
   LET found == {j \in i .. Len(s) : StripsAt(s, j)}
   IN  IF found = {} THEN SubSeq(s, i, Len(s))
       ELSE LET j == CHOOSE j \in found : \A h \in found : j <= h
                w == IF IsPairAt(s, j) THEN 2 ELSE 1
            IN  SubSeq(s, i, j - 1) \o StripFrom(s, j + w)

StripRemaining(s) == StripFrom(s, 1)

replaceEmojisForPDF(text) ==
   IF Falsy(text) THEN text
   ELSE StripRemaining(ReplaceListed(text, 1, Len(EMOJI_REPLACEMENTS)))

----------------------------------------------------------------------------
(* 4.2 Markdown-subset parser: parseFormattedText, parseInlineFormatting.  *)

TAB == 9
NEWLINE == 10
SPACE == 32
ASTERISK == 42
HYPHEN == 45
PERIOD == 46
BULLET == 8226

\* White space of String.prototype.trim and of the regex class \s.
WhiteSpace == {9, 10, 11, 12, 13, 32, 160, 5760, 8232, 8233, 8239, 8287,
               12288, 65279} \cup (8192 .. 8202)

\* The regex class \d.
IsDigit(u) == u >= 48 /\ u <= 57

RECURSIVE TrimStart(_)
TrimStart(s) == IF s # <<>> /\ Head(s) \in WhiteSpace THEN TrimStart(Tail(s)) ELSE s

RECURSIVE TrimEnd(_)
TrimEnd(s) == IF s # <<>> /\ s[Len(s)] \in WhiteSpace
              THEN TrimEnd(SubSeq(s, 1, Len(s) - 1)) ELSE s

Trim(s) == TrimEnd(TrimStart(s))

\* s.split(sep) for a one-unit separator: always at least one piece.  From
\* position i: the piece up to the next separator, then the pieces behind it.
RECURSIVE SplitOn(_, _, _)
SplitOn(s, sep, i) ==
   LET found == {j \in i .. Len(s) : s[j] = sep}
   IN  IF found = {} THEN <<SubSeq(s, i, Len(s))>>
       ELSE LET j == CHOOSE j \in found : \A h \in found : j <= h
            IN  <<SubSeq(s, i, j - 1)>> \o SplitOn(s, sep, j + 1)

Split(s, sep) == SplitOn(s, sep, 1)

\* /^\d+\.\s/.test(trimmed)
RECURSIVE DigitsEnd(_, _)
DigitsEnd(s, i) == IF i <= Len(s) /\ IsDigit(s[i]) THEN DigitsEnd(s, i + 1) ELSE i

IsNumberedList(trimmed) ==
   LET e == DigitsEnd(trimmed, 1)
   IN  /\ e > 1
       /\ e + 1 <= Len(trimmed)
       /\ trimmed[e] = PERIOD
       /\ trimmed[e + 1] \in WhiteSpace

StartsWith(s, p) == StartsAt(s, p, 1)

\* A variant that takes a leading digit for a list marker as well.
HasListMarker(trimmed) ==
   trimmed # <<>> /\ (Head(trimmed) \in {BULLET, HYPHEN, ASTERISK} \/ IsDigit(Head(trimmed)))

\* trimmed.startsWith('•') || trimmed.startsWith('-') ||
\* (trimmed.startsWith('*') && !trimmed.startsWith('**'))
HasBulletMarker(trimmed) ==
   \/ StartsWith(trimmed, <<BULLET>>)
   \/ StartsWith(trimmed, <<HYPHEN>>)
   \/ StartsWith(trimmed, <<ASTERISK>>) /\ ~StartsWith(trimmed, <<ASTERISK, ASTERISK>>)

\* trimmed.replace(/^[•\-*]\s*/, '')
StripMarker(trimmed) ==
   IF trimmed # <<>> /\ Head(trimmed) \in {BULLET, HYPHEN, ASTERISK}
   THEN TrimStart(Tail(trimmed))
   ELSE trimmed

\* An emitted run; the code pushes it only when currentText is not empty.
Run(text, bold, italic) == [text |-> text, bold |-> bold, italic |-> italic]

Flush(segments, currentText, bold, italic) ==
   IF currentText # <<>> THEN Append(segments, Run(currentText, bold, italic))
   ELSE segments

\* text[i] of JavaScript at the 1-based position i: undefined (here 0, no
\* code unit of the inputs) outside the string.
CharAt(text, i) == IF i >= 1 /\ i <= Len(text) THEN text[i] ELSE 0

\* The position of the first asterisk of text at or after i, Len(text) + 1
\* when there is none.
NextAsterisk(text, i) ==
   CHOOSE j \in i .. Len(text) + 1 :
      /\ j = Len(text) + 1 \/ text[j] = ASTERISK
      /\ \A h \in i .. j - 1 : text[h] # ASTERISK

\* A variant of the loop without the check for three asterisks.
RECURSIVE InlineLoopWithoutTriple(_, _, _, _, _, _)
InlineLoopWithoutTriple(text, i, segments, currentText, isBold, isItalic) ==
   IF i > Len(text) THEN Flush(segments, currentText, isBold, isItalic)
   ELSE IF Sub(text, i, i + 1) = <<ASTERISK, ASTERISK>>
   THEN InlineLoopWithoutTriple(text, i + 2,
                                Flush(segments, currentText, isBold, isItalic),
                                <<>>, ~isBold, isItalic)
   ELSE IF /\ text[i] = ASTERISK
           /\ CharAt(text, i + 1) # ASTERISK
           /\ CharAt(text, i - 1) # ASTERISK
   THEN InlineLoopWithoutTriple(text, i + 1,
                                Flush(segments, currentText, isBold, isItalic),
                                <<>>, isBold, ~isItalic)
   ELSE IF text[i] = ASTERISK
   THEN InlineLoopWithoutTriple(text, i + 1, segments, Append(currentText, text[i]),
        isBold, isItalic)
   ELSE LET j == NextAsterisk(text, i)
        IN  InlineLoopWithoutTriple(text, j, segments, currentText \o SubSeq(text, i, j - 1),
            isBold, isItalic)

\* The while loop of parseInlineFormatting, i 1-based.  The characters up to
\* the next asterisk each take the last branch, currentText += text[i]: they
\* are appended in one step.
RECURSIVE InlineLoop(_, _, _, _, _, _)
InlineLoop(text, i, segments, currentText, isBold, isItalic) ==
   IF i > Len(text) THEN Flush(segments, currentText, isBold, isItalic)
   ELSE IF Sub(text, i, i + 2) = <<ASTERISK, ASTERISK, ASTERISK>>
   THEN InlineLoop(text, i + 3, Flush(segments, currentText, isBold, isItalic),
                   <<>>, ~isBold, ~isItalic)
   ELSE IF Sub(text, i, i + 1) = <<ASTERISK, ASTERISK>>
   THEN InlineLoop(text, i + 2, Flush(segments, currentText, isBold, isItalic),
                   <<>>, ~isBold, isItalic)
   ELSE IF /\ text[i] = ASTERISK
           /\ CharAt(text, i + 1) # ASTERISK
           /\ CharAt(text, i - 1) # ASTERISK
   THEN InlineLoop(text, i + 1, Flush(segments, currentText, isBold, isItalic),
                   <<>>, isBold, ~isItalic)
   ELSE IF text[i] = ASTERISK
   THEN InlineLoop(text, i + 1, segments, Append(currentText, text[i]),
        isBold, isItalic)
   ELSE LET j == NextAsterisk(text, i)
        IN  InlineLoop(text, j, segments, currentText \o SubSeq(text, i, j - 1),
            isBold, isItalic)

\* A variant that starts inside a bold span.
parseInlineFormattingFromBold(text) == InlineLoop(text, 1, <<>>, <<>>, TRUE, FALSE)

\* let isBold = false; let isItalic = false; let i = 0; the loop.
parseInlineFormatting(text) == InlineLoop(text, 1, <<>>, <<>>, FALSE, FALSE)

\* A segment of the list parseFormattedText returns.  The fields a pushed
\* object lacks (undefined in JavaScript) are FALSE or 0 here.
\* A variant that does not mark the line ends.
UnmarkedSegment == [text |-> <<>>, bold |-> FALSE, italic |-> FALSE,
                    isBullet |-> FALSE, indent |-> 0, isSubBullet |-> FALSE,
                    isNewline |-> FALSE]

NewlineSegment == [text |-> <<>>, bold |-> FALSE, italic |-> FALSE,
                   isBullet |-> FALSE, indent |-> 0, isSubBullet |-> FALSE,
                   isNewline |-> TRUE]

SUB_INDENT == 20
MAIN_INDENT == 8

\* A variant with one indent for every bullet.
IndentLevelUniform(isBullet, hasTab) == IF isBullet THEN MAIN_INDENT ELSE 0

\* let indentLevel = 0; if (isBullet) { if (hasTab) ... = 20 else ... = 8 }
IndentLevel(isBullet, hasTab) ==
   IF isBullet THEN (IF hasTab THEN SUB_INDENT ELSE MAIN_INDENT) ELSE 0

\* The body of lines.forEach for one line: the segments it pushes.
LineSegments(line) ==
   IF Trim(line) = <<>> THEN <<NewlineSegment>>
   ELSE LET hasTab == StartsWith(line, <<TAB>>)
            trimmed == Trim(line)
            isBullet == ~IsNumberedList(trimmed) /\ HasBulletMarker(trimmed)
            indentLevel == IndentLevel(isBullet, hasTab)
            content == IF isBullet THEN StripMarker(trimmed) ELSE line
            inlineSegments == parseInlineFormatting(Trim(content))
        IN  [idx \in 1 .. Len(inlineSegments) |->
               [text |-> inlineSegments[idx].text,
                bold |-> inlineSegments[idx].bold,
                italic |-> inlineSegments[idx].italic,
                isBullet |-> isBullet /\ idx = 1,
                indent |-> indentLevel,
                isSubBullet |-> hasTab /\ isBullet,
                isNewline |-> FALSE]]
            \o <<NewlineSegment>>

RECURSIVE ConcatLines(_, _)
ConcatLines(lines, k) ==
   IF k > Len(lines) THEN <<>>
   ELSE LineSegments(lines[k]) \o ConcatLines(lines, k + 1)

\* cleanText.split('\n') throws when replaceEmojisForPDF returned undefined.
ParseThrows(text) == replaceEmojisForPDF(text) = Undefined

\* const lines = cleanText.split('\n'); lines.forEach(...); return segments
PushLines(cleanText) == ConcatLines(Split(cleanText, NEWLINE), 1)

parseFormattedText(text) == PushLines(replaceEmojisForPDF(text))

----------------------------------------------------------------------------
(* The output sink (jsPDF): the current page and the draw calls made.      *)

\* The code's x millimetres, in half millimetres.
Mm(x) == 2 * x

\* new jsPDF('p', 'mm', 'a4'): an A4 page, 210 mm by 297 mm.
pageWidth == Mm(210)
pageHeight == Mm(297)

\* Width of one character as pdf.getTextWidth measures it (half millimetres).
CharW == 50

\* pdf.getTextWidth(str)
getTextWidth(str) == Len(str) * CharW

\* lastAutoTable is the finalY of the last table autoTable drew, 0 while
\* there is none.
NewPdf == [page |-> 1, ops |-> <<>>, lastAutoTable |-> 0]

\* One draw call of block blk: pdf.text, pdf.addImage, autoTable.
Draw(pdf, blk, op, x, y, str) ==
   [pdf EXCEPT !.ops = Append(@, [blk |-> blk, op |-> op, page |-> pdf.page,
                                  x |-> x, y |-> y, str |-> str])]

\* pdf.addPage()
addPage(pdf) == [pdf EXCEPT !.page = @ + 1]

----------------------------------------------------------------------------
(* 4.3 Layout engine: addFormattedText and renderTextLine, one step per    *)
(* forEach iteration of addFormattedText and per word of renderTextLine.   *)

\* A variant whose text layout engine has another top margin than the
\* sequencer.
lineMarginShifted == Mm(20)

\* const margin = 15 of renderTextLine.
lineMargin == Mm(15)

NoLine == [active |-> FALSE, segments |-> <<>>, s |-> 1, w |-> 1,
           currentX |-> 0, last |-> FALSE]

\* The locals of addFormattedText at its start.
StartLayout(segments, xPosition, yPosition, maxWidth, lineHeight) ==
   [segments |-> segments, index |-> 1,
    xPosition |-> xPosition, maxWidth |-> maxWidth, lineHeight |-> lineHeight,
    currentY |-> yPosition, currentLineSegments |-> <<>>,
    currentBulletIndent |-> 0, line |-> NoLine, returned |-> FALSE]

\* const bulletX = bulletIndent > 15 ? xPosition + 12 : xPosition + 2
BulletX(xPosition, bulletIndent) ==
   IF bulletIndent > Mm(15) THEN xPosition + Mm(12) ELSE xPosition + Mm(2)

\* The start of renderTextLine: its locals, and the bullet when indented.
EnterLine(lay, pdf, blk, last) ==
   [lay |-> [lay EXCEPT !.line = [active |-> TRUE,
                                  segments |-> lay.currentLineSegments,
                                  s |-> 1, w |-> 1,
                                  currentX |-> lay.xPosition + lay.currentBulletIndent,
                                  last |-> last]],
    pdf |-> IF lay.currentBulletIndent > 0
            THEN Draw(pdf, blk, "bullet",
                      BulletX(lay.xPosition, lay.currentBulletIndent),
                      lay.currentY, <<BULLET>>)
            ELSE pdf]

\* A variant that gives an empty line no height.
EmptyLineIgnored(lay) == [lay EXCEPT !.index = @ + 1]

\* Empty line - add spacing for paragraph break: currentY += lineHeight
EmptyLine(lay) == [lay EXCEPT !.currentY = @ + lay.lineHeight, !.index = @ + 1]

\* One iteration of segments.forEach in addFormattedText.
SegmentStep(lay, pdf, blk) ==
   LET segment == lay.segments[lay.index]
   IN  IF segment.isNewline
       THEN IF Len(lay.currentLineSegments) > 0
            THEN EnterLine(lay, pdf, blk, FALSE)
            ELSE [lay |-> EmptyLine(lay), pdf |-> pdf]
       ELSE [lay |-> [lay EXCEPT
                        !.currentBulletIndent =
                           IF segment.isBullet
                           THEN (IF segment.indent # 0 THEN Mm(segment.indent)
                                 ELSE Mm(8))
                           ELSE @,
                        !.currentLineSegments = Append(@, segment),
                        !.index = @ + 1],
             pdf |-> pdf]

\* A variant that keeps the indent after a line has been rendered.
LeaveLineKeepingIndent(lay, pdf) ==
   [lay |-> IF lay.line.last
            THEN [lay EXCEPT !.currentY = @ + lay.lineHeight,
                             !.line = NoLine, !.returned = TRUE]
            ELSE [lay EXCEPT !.currentY = @ + lay.lineHeight,
                             !.line = NoLine,
                             !.currentLineSegments = <<>>,
                             !.index = @ + 1],
    pdf |-> pdf]

\* return currentY + lineHeight of renderTextLine, and what addFormattedText
\* does with it: reset the line and the indent, or (the trailing call) return.
LeaveLine(lay, pdf) ==
   [lay |-> IF lay.line.last
            THEN [lay EXCEPT !.currentY = @ + lay.lineHeight,
                             !.line = NoLine, !.returned = TRUE]
            ELSE [lay EXCEPT !.currentY = @ + lay.lineHeight,
                             !.line = NoLine,
                             !.currentLineSegments = <<>>,
                             !.currentBulletIndent = 0,
                             !.index = @ + 1],
    pdf |-> pdf]

\* Whether renderTextLine starts a new line (and page) before a word whose
\* text with its leading space is textWidth wide.
Wraps(lay, textWidth) ==
   lay.line.currentX + textWidth > lay.xPosition + lay.maxWidth - Mm(5)

BreaksPage(currentY) == currentY > pageHeight - lineMargin - Mm(10)

\* One iteration of words.forEach in renderTextLine.
WordStep(lay, pdf, blk) ==
   LET line == lay.line
       segment == line.segments[line.s]
       words == Split(segment.text, SPACE)
       word == words[line.w]
       startX == lay.xPosition + lay.currentBulletIndent
       textToAdd == IF line.w > 1 \/ line.currentX > startX
                    THEN <<SPACE>> \o word ELSE word
       textWidth == getTextWidth(textToAdd)
       nextY == lay.currentY + lay.lineHeight
       advance == IF line.w < Len(words)
                  THEN [line EXCEPT !.w = @ + 1]
                  ELSE [line EXCEPT !.s = @ + 1, !.w = 1]
   IN  IF segment.text = <<>>
       THEN [lay |-> [lay EXCEPT !.line.s = @ + 1, !.line.w = 1], pdf |-> pdf]
       ELSE IF Wraps(lay, textWidth)
       THEN LET broke == BreaksPage(nextY)
                y == IF broke THEN lineMargin ELSE nextY
                p1 == IF broke THEN addPage(pdf) ELSE pdf
                p2 == IF broke /\ lay.currentBulletIndent > 0
                      THEN Draw(p1, blk, "bullet", lay.xPosition + Mm(2), y,
                                <<BULLET>>)
                      ELSE p1
            IN  [lay |-> [lay EXCEPT
                            !.currentY = y,
                            !.line = [advance EXCEPT
                                        !.currentX = startX + getTextWidth(word)]],
                 pdf |-> Draw(p2, blk, "text", startX, y, word)]
       ELSE [lay |-> [lay EXCEPT
                        !.line = [advance EXCEPT !.currentX = @ + textWidth]],
             pdf |-> Draw(pdf, blk, "text", line.currentX, lay.currentY,
                          textToAdd)]

\* Whether addFormattedText has returned; its value is lay.currentY.
LayoutDone(lay) == lay.returned

\* A variant without the call of renderTextLine after the forEach, for the
\* segments that no line end followed.
LayoutStepWithoutRest(lay, pdf, blk) ==
   IF lay.line.active
   THEN IF lay.line.s > Len(lay.line.segments)
        THEN LeaveLine(lay, pdf)
        ELSE WordStep(lay, pdf, blk)
   ELSE IF lay.index <= Len(lay.segments)
   THEN SegmentStep(lay, pdf, blk)
   ELSE [lay |-> [lay EXCEPT !.returned = TRUE], pdf |-> pdf]

\* One step of addFormattedText.
LayoutStep(lay, pdf, blk) ==
   IF lay.line.active
   THEN IF lay.line.s > Len(lay.line.segments)
        THEN LeaveLine(lay, pdf)
        ELSE WordStep(lay, pdf, blk)
   ELSE IF lay.index <= Len(lay.segments)
   THEN SegmentStep(lay, pdf, blk)
   ELSE IF Len(lay.currentLineSegments) > 0
   THEN EnterLine(lay, pdf, blk, TRUE)
   ELSE [lay |-> [lay EXCEPT !.returned = TRUE], pdf |-> pdf]

\* No call of addFormattedText in progress.
NoLayout == StartLayout(<<>>, 0, 0, 0, 0)

----------------------------------------------------------------------------
(* The ChatResponse component: props, state, refs.                         *)

\* The responseId props of the mounted ChatResponse components.
Responses == {"resp-1", "resp-2"}

\* A DOM element a component rendered for one of its sections.
Element(resp, section) == [owner |-> resp, id |-> section.id]
NoElement == [owner |-> "", id |-> ""]

\* sectionsToRender: every base section with its id prefixed by responseId.
PrefixedId(responseId, section) == responseId \o "-" \o section.id

sectionsToRender(responseId, baseSections) ==
   [k \in 1 .. Len(baseSections) |->
      [baseSections[k] EXCEPT !.id = PrefixedId(responseId, baseSections[k])]]

\* A variant with one ref table for all components, keyed by the unprefixed
\* id (the arrangement the prefixed ids and the per-component useRef replace).
RefSlotShared(resp, baseSection) == [store |-> "shared", key |-> baseSection.id]

\* Where the ref callback of a rendered section stores its element: in the
\* component's own sectionRefs object (useRef), under the prefixed id.
RefSlot(resp, baseSection) ==
   [store |-> resp, key |-> PrefixedId(resp, baseSection)]

\* sectionRefs.current[section.id]
RefElement(refs, resp, baseSection) ==
   IF RefSlot(resp, baseSection) \in DOMAIN refs
   THEN refs[RefSlot(resp, baseSection)] ELSE NoElement

----------------------------------------------------------------------------
(* 4.4 Block sequencer: downloadMessagePDF.                                *)

margin == Mm(15)
lineHeight == Mm(7)
maxWidth == pageWidth - 2 * margin

\* lineHeight: 6.5 of the options given to addFormattedText.
textLineHeight == 13

\* The title, the question and the answer: yPosition where the sections start.
HeaderEnd(questionLines, answerLines) ==
   margin + Mm(12) + Mm(7) + questionLines * Mm(6) + Mm(10)
          + Mm(7) + answerLines * 13 + Mm(12)

DrawHeader(pdf, questionLines, answerLines) ==
   LET y1 == margin
       y2 == y1 + Mm(12)
       y3 == y2 + Mm(7)
       y4 == y3 + questionLines * Mm(6) + Mm(10)
       y5 == y4 + Mm(7)
       p1 == Draw(pdf, 0, "title", margin, y1, <<>>)
       p2 == Draw(p1, 0, "label", margin, y2, <<>>)
       p3 == Draw(p2, 0, "question", margin, y3, <<>>)
       p4 == Draw(p3, 0, "label", margin, y4, <<>>)
   IN  Draw(p4, 0, "answer", margin, y5, <<>>)

\* A variant that enters the chart branch without looking at the ref element.
BranchWithoutRefCheck(section, sectionRefElement) ==
   IF section.type = "text" /\ sectionRefElement # NoElement
   THEN (IF section.isFormatted THEN "formatted" ELSE "image")
   ELSE IF section.type = "text" THEN "formatted"
   ELSE IF section.type = "table" THEN "table"
   ELSE "chart"

\* Which branch of the loop body a section takes, given its ref element.
Branch(section, sectionRefElement) ==
   IF section.type = "text" /\ sectionRefElement # NoElement
   THEN (IF section.isFormatted THEN "formatted" ELSE "image")
   ELSE IF section.type = "text" THEN "formatted"
   ELSE IF section.type = "table" THEN "table"
   ELSE IF section.type = "chart" /\ sectionRefElement # NoElement THEN "chart"
   ELSE "skip"

\* A variant that gives every branch the margin of formatted text.
BreakLimitOfText(branch) == pageHeight - Mm(30)

\* A variant that gives every branch the margin of tables and charts.
BreakLimitOfTable(branch) == pageHeight - Mm(100)

\* The y beyond which a branch starts on a new page.
BreakLimit(branch) ==
   IF branch = "formatted" THEN pageHeight - Mm(30)
   ELSE IF branch = "image" THEN pageHeight - Mm(50)
   ELSE pageHeight - Mm(100)

\* if (section.heading) { pdf.text(...); yPosition += 3; pdf.line(...); yPosition += 8 }
WithHeading(run, section) ==
   IF Falsy(section.heading) THEN run
   ELSE [run EXCEPT
           !.pdf = Draw(Draw(run.pdf, run.i, "heading", margin, run.yPosition,
                             replaceEmojisForPDF(section.heading)),
                        run.i, "rule", margin, run.yPosition + Mm(3), <<>>),
           !.yPosition = @ + Mm(3) + Mm(8)]

\* The end of one iteration of the for loop.
NextSection(run) == [run EXCEPT !.i = @ + 1, !.pc = "loop"]

\* An exception thrown inside the outer try: control goes to its catch.
Throw(run) == [run EXCEPT !.pc = "catch", !.threw = TRUE]

\* A variant without the await: the capture is started and the loop goes on.
StartCaptureUnawaited(run, element, pc) ==
   [NextSection(run) EXCEPT
      !.inflight = @ \cup {[blk |-> run.i, el |-> element]},
      !.events = Append(@, [blk |-> run.i, ev |-> "capture", el |-> element])]

\* await html2canvas(element, ...): the capture is started and the function
\* is suspended until it settles.
AwaitCapture(run, element, pc) ==
   [run EXCEPT !.pc = pc,
               !.inflight = @ \cup {[blk |-> run.i, el |-> element]},
               !.events = Append(@, [blk |-> run.i, ev |-> "capture", el |-> element])]

\* The capture the suspended function waits for has settled.
Settled(run) == [run EXCEPT !.inflight = {c \in @ : c.blk # run.i}]

\* Heights (mm) of a captured canvas scaled to maxWidth.
ImageHeights == {Mm(60), Mm(120)}

\* What autoTable reports: it threw; or the table ended on the page it
\* started on, below startY; or it broke onto further pages; or it reports
\* no finalY.
\* A variant that never finds an image too tall for the rest of the page.
NeverOverflows(yPosition, height) == FALSE

\* yPosition + height > pageHeight - 15
Overflows(yPosition, height) == yPosition + height > pageHeight - Mm(15)

\* A variant that does not wait.
WithoutDelay(run, blk, ev) == run

\* await new Promise(resolve => setTimeout(resolve, ms)) has resolved.
AfterDelay(run, blk, ev) ==
   [run EXCEPT !.events = Append(@, [blk |-> blk, ev |-> ev, el |-> NoElement])]

TableHeights == {Mm(40)}
TableOutcomes(startY) ==
   {[threw |-> TRUE, pages |-> 0, finalY |-> 0]}
   \cup {[threw |-> FALSE, pages |-> 0, finalY |-> startY + h] : h \in TableHeights}
   \cup {[threw |-> FALSE, pages |-> 1, finalY |-> f] : f \in {Mm(50), Mm(250)}}
   \cup {[threw |-> FALSE, pages |-> 0, finalY |-> 0]}

\* A variant without the finally block.
FinallyWithoutReset(isDl, resp) == isDl

\* finally { setIsDownloading(false) }
Finally(isDl, resp) == [isDl EXCEPT ![resp] = FALSE]

\* The cursor: currentY while addFormattedText runs, yPosition otherwise.
Cursor(run) == IF run.pc = "layout" THEN run.lay.currentY ELSE run.yPosition

Active(run) == run.pc # "done"

----------------------------------------------------------------------------
(* State.                                                                  *)

VARIABLES
   sections,       \* per response: the base sections of its props
   answerLines,    \* per response: lines of the answer after splitTextToSize
   mounted,        \* per response: the component has rendered and committed
   sectionRefs,    \* the elements the ref callbacks stored, by slot
   isDownloading,  \* per response: the React state
   rendered,       \* per response: isDownloading as the last render's
                   \* downloadMessagePDF closure sees it
   runs,           \* the accepted invocations of downloadMessagePDF
   turn            \* the run whose synchronous code is executing, 0 if none

vars == <<norm, parse, fmt, ids, sections, answerLines, mounted, sectionRefs, isDownloading,
          rendered, runs, turn>>

seqVars == <<sections, answerLines, mounted, sectionRefs, isDownloading,
             rendered, runs, turn>>

\* Bounds.
MaxSections == 2
MaxRuns == 2

\* Texts of the text sections: "ab cd ef" (it wraps), "- x" (a bullet) and
\* a missing content.
TextContents == {<<97, 98, 32, 99, 100, 32, 101, 102>>,
                 <<45, 32, 120>>,
                 Undefined}

Section(type, heading, isFormatted, content, hasTable, attached) ==
   [type |-> type, id |-> "", heading |-> heading, isFormatted |-> isFormatted,
    content |-> content, hasTable |-> hasTable, attached |-> attached]

\* The kinds of section of the inputs (one text section has neither heading
\* nor content); attached says whether React attached
\* the section's element, so that its ref callback ran with it.
SectionKinds ==
   {Section("text", h, TRUE, c, FALSE, TRUE) : h \in {<<>>, <<72>>}, c \in TextContents}
   \cup {Section("text", <<>>, TRUE, <<>>, FALSE, TRUE)}
   \cup {Section("text", <<>>, FALSE, <<45, 32, 120>>, FALSE, a) : a \in BOOLEAN}
   \cup {Section("table", <<72>>, FALSE, <<>>, t, TRUE) : t \in BOOLEAN}
   \cup {Section("chart", h, FALSE, <<>>, FALSE, TRUE) : h \in {<<>>, <<72>>}}
   \cup {Section("chart", <<72>>, FALSE, <<>>, FALSE, FALSE)}

SectionId(k) == IF k = 1 THEN "s1" ELSE IF k = 2 THEN "s2" ELSE IF k = 3 THEN "s3" ELSE "s4"

\* The kinds of the runs that overlap: a formatted text, a text rendered as
\* an image, a table and a chart.
ConcSectionKinds ==
   {Section("text", <<>>, TRUE, <<45, 32, 120>>, FALSE, TRUE),
    Section("text", <<>>, FALSE, <<45, 32, 120>>, FALSE, TRUE),
    Section("table", <<72>>, FALSE, <<>>, TRUE, TRUE),
    Section("chart", <<72>>, FALSE, <<>>, FALSE, TRUE)}

\* The lists of at most n sections of the given kinds, ids by position.
RECURSIVE SectionLists(_, _)
SectionLists(kinds, n) ==
   IF n = 0 THEN {<<>>}
   ELSE LET shorter == SectionLists(kinds, n - 1)
        IN  shorter \cup {Append(l, [s EXCEPT !.id = SectionId(Len(l) + 1)]) :
                            l \in {x \in shorter : Len(x) = n - 1}, s \in kinds}

\* The charts prop: entries of the documented shape { data, type }, where
\* type is the kind of chart.
ChartEntries == {[data |-> <<>>, type |-> t] : t \in {"bar", "line"}}

ChartsLists == {<<c>> : c \in ChartEntries}
               \cup {<<c, d>> : c \in {[data |-> <<>>, type |-> "bar"]}, d \in ChartEntries}

\* { ...own, ...chart }: the properties of chart override those of own.
SpreadOver(own, chart) ==
   [f \in DOMAIN own \cup DOMAIN chart |->
      IF f \in DOMAIN chart THEN chart[f] ELSE own[f]]

\* The section made of entry i (from 0) of the charts prop. Its element is
\* attached when the JSX renders it, which it does for
\* section.type === 'chart'.
ChartSection(i, chart) ==
   LET object == SpreadOver([type |-> "chart", id |-> "chart-" \o ToString(i),
                             heading |-> <<68, 86>>], chart)
   IN  [Section(object.type, object.heading, FALSE, <<>>, FALSE,
                object.type = "chart") EXCEPT !.id = object.id]

\* baseSections: the sections prop, or else one section per entry of the
\* charts prop.
baseSections(sectionsProp, charts) ==
   IF Len(sectionsProp) > 0 THEN sectionsProp
   ELSE [k \in 1 .. Len(charts) |-> ChartSection(k - 1, charts[k])]

\* The props of a response: a list of sections, or no section and a list
\* of charts.
BaseSectionLists ==
   SectionLists(SectionKinds, MaxSections)
   \cup {baseSections(<<>>, charts) : charts \in ChartsLists}

AnswerLineChoices == {1, 30, 36}
ConcAnswerLineChoices == {1, 16}

NoRefs == [slot \in {} |-> NoElement]

First == "resp-1"

InitIdle ==
   /\ mounted = [resp \in Responses |-> FALSE]
   /\ sectionRefs = NoRefs
   /\ isDownloading = [resp \in Responses |-> FALSE]
   /\ rendered = [resp \in Responses |-> FALSE]
   /\ runs = <<>>
   /\ turn = 0

NormIdle == norm = [pc |-> "idle", text |-> <<>>, once |-> <<>>, twice |-> <<>>]

ParseIdle == parse = [pc |-> "idle", text |-> <<>>, segments |-> <<>>]

FmtIdle == fmt = [pc |-> "idle", text |-> <<>>, maxWidth |-> 0, yPosition |-> 0,
                  lay |-> NoLayout, pdf |-> NewPdf]

\* No pure function is being exercised on its own.
IdsIdle == ids = [pc |-> "idle", responseIds |-> <<>>, baseSections |-> <<>>,
                  sectionsToRender |-> <<>>]

PureIdle == NormIdle /\ ParseIdle /\ FmtIdle /\ IdsIdle

\* One response, any list of sections.
Init ==
   /\ PureIdle
   /\ sections \in {[resp \in Responses |-> IF resp = First THEN l ELSE <<>>] :
                      l \in BaseSectionLists}
   /\ answerLines \in {[resp \in Responses |-> IF resp = First THEN a ELSE 1] :
                         a \in AnswerLineChoices}
   /\ InitIdle

\* Two responses with the same props: no section, or one section, which has
\* the same unprefixed id in both.
InitConc ==
   /\ PureIdle
   /\ sections \in {[resp \in Responses |-> l] :
                      l \in SectionLists(ConcSectionKinds, 1)}
   /\ answerLines \in {[resp \in Responses |-> a] : a \in ConcAnswerLineChoices}
   /\ InitIdle

----------------------------------------------------------------------------
(* React: mounting a component and re-rendering it after a state change.   *)

\* The first commit of a component: the ref callback of every section whose
\* element React attached stores it.
Mount(resp) ==
   /\ turn = 0
   /\ ~mounted[resp]
   /\ mounted' = [mounted EXCEPT ![resp] = TRUE]
   /\ LET base == sections[resp]
          attached == {k \in 1 .. Len(base) : base[k].attached}
          slots == {RefSlot(resp, base[k]) : k \in attached}
      IN  sectionRefs' =
             [slot \in DOMAIN sectionRefs \cup slots |->
                IF slot \in slots
                THEN Element(resp, base[CHOOSE k \in attached :
                                          RefSlot(resp, base[k]) = slot])
                ELSE sectionRefs[slot]]
   /\ UNCHANGED <<norm, parse, fmt, ids, sections, answerLines, isDownloading, rendered, runs, turn>>

\* A re-render after setIsDownloading: the new downloadMessagePDF closure
\* sees the current state.
Render(resp) ==
   /\ turn = 0
   /\ mounted[resp]
   /\ rendered[resp] # isDownloading[resp]
   /\ rendered' = [rendered EXCEPT ![resp] = isDownloading[resp]]
   /\ UNCHANGED <<norm, parse, fmt, ids, sections, answerLines, mounted, sectionRefs,
                  isDownloading, runs, turn>>

----------------------------------------------------------------------------
(* downloadMessagePDF, one action per stretch of code between two awaits   *)
(* or two cursor decisions.                                                *)

NewRun(resp) ==
   [resp |-> resp, pc |-> "new", i |-> 1, yPosition |-> margin, pdf |-> NewPdf,
    lay |-> NoLayout, img |-> 0, inflight |-> {}, events |-> <<>>,
    alerts |-> 0, saved |-> 0, threw |-> FALSE, capabilityErrors |-> 0,
    prior |-> Cardinality({q \in 1 .. Len(runs) :
                             runs[q].resp = resp /\ runs[q].pc = "done"})]

\* Run r exists and is at one of the places pcs.
At(r, pcs) == r <= Len(runs) /\ runs[r].pc \in pcs

Update(r, run, t) ==
   /\ runs' = [runs EXCEPT ![r] = run]
   /\ turn' = t
   /\ UNCHANGED <<norm, parse, fmt, ids, sections, answerLines, mounted, sectionRefs, rendered>>

\* if (isDownloading) return;
Reject(resp) ==
   /\ turn = 0
   /\ mounted[resp]
   /\ rendered[resp]
   /\ UNCHANGED vars

\* The guard passed: setIsDownloading(true), new jsPDF (which may throw),
\* the title, question and answer, up to the first await.
Accept(resp) ==
   /\ turn = 0
   /\ mounted[resp]
   /\ ~rendered[resp]
   /\ Len(runs) < MaxRuns
   /\ isDownloading' = [isDownloading EXCEPT ![resp] = TRUE]
   /\ \E sinkCreated \in BOOLEAN :
        LET id == Len(runs) + 1
            run == IF ~sinkCreated THEN Throw(NewRun(resp))
                   ELSE [NewRun(resp) EXCEPT
                           !.pdf = DrawHeader(NewPdf, 1, answerLines[resp]),
                           !.yPosition = HeaderEnd(1, answerLines[resp]),
                           !.pc = IF Len(sections[resp]) > 0 THEN "settle"
                                  ELSE "stamp"]
        IN  /\ runs' = Append(runs, run)
            /\ turn' = IF run.pc = "settle" THEN 0 ELSE id
   /\ UNCHANGED <<norm, parse, fmt, ids, sections, answerLines, mounted, sectionRefs, rendered>>

\* await new Promise(resolve => setTimeout(resolve, 1500)) has settled.
Settle(r) ==
   /\ At(r, {"settle"})
   /\ turn = 0
   /\ Update(r, [AfterDelay(runs[r], 0, "delay1500") EXCEPT !.pc = "loop"], r)
   /\ UNCHANGED isDownloading

\* The head of the for loop and of its body: the branch the section takes
\* and the page break before it.
Dispatch(r) ==
   /\ At(r, {"loop"})
   /\ turn = r
   /\ LET run == runs[r]
          base == sections[run.resp]
      IN  IF run.i > Len(base)
          THEN Update(r, [run EXCEPT !.pc = "stamp"], r)
          ELSE LET branch == Branch(base[run.i],
                                    RefElement(sectionRefs, run.resp, base[run.i]))
               IN  IF branch = "skip" THEN Update(r, NextSection(run), r)
                   ELSE IF run.yPosition > BreakLimit(branch)
                   THEN Update(r, [run EXCEPT !.pdf = addPage(@),
                                              !.yPosition = margin,
                                              !.pc = branch], r)
                   ELSE Update(r, [run EXCEPT !.pc = branch], r)
   /\ UNCHANGED isDownloading

\* A formatted text section: its heading, parseFormattedText, the start of
\* addFormattedText.
Formatted(r) ==
   /\ At(r, {"formatted"})
   /\ turn = r
   /\ LET run == runs[r]
          section == sections[run.resp][run.i]
          headed == WithHeading(run, section)
      IN  IF ParseThrows(section.content)
          THEN Update(r, Throw(headed), r)
          ELSE Update(r, [headed EXCEPT
                            !.pc = "layout",
                            !.lay = StartLayout(parseFormattedText(section.content),
                                                margin, headed.yPosition,
                                                maxWidth, textLineHeight)], r)
   /\ UNCHANGED isDownloading

\* addFormattedText, step by step; on its return yPosition = result + 8.
Layout(r) ==
   /\ At(r, {"layout"})
   /\ turn = r
   /\ LET run == runs[r]
      IN  IF LayoutDone(run.lay)
          THEN Update(r, NextSection([run EXCEPT
                                        !.yPosition = run.lay.currentY + Mm(8),
                                        !.lay = NoLayout]), r)
          ELSE LET next == LayoutStep(run.lay, run.pdf, run.i)
               IN  Update(r, [run EXCEPT !.lay = next.lay, !.pdf = next.pdf], r)
   /\ UNCHANGED isDownloading

\* A text section rendered as an image: html2canvas is called and awaited.
Image(r) ==
   /\ At(r, {"image"})
   /\ turn = r
   /\ LET run == runs[r]
          element == RefElement(sectionRefs, run.resp, sections[run.resp][run.i])
      IN  Update(r, AwaitCapture(run, element, "awaitImage"), 0)
   /\ UNCHANGED isDownloading

\* The capture of a text section settles: a canvas, or a rejection, which
\* nothing catches before the outer catch.
ImageSettled(r) ==
   /\ At(r, {"awaitImage"})
   /\ turn = 0
   /\ \/ \E h \in ImageHeights :
           Update(r, [Settled(runs[r]) EXCEPT !.pc = "imageFit", !.img = h], r)
      \/ Update(r, Throw([Settled(runs[r]) EXCEPT !.capabilityErrors = @ + 1]), r)
   /\ UNCHANGED isDownloading

\* pdf.addImage(...); yPosition += height + 10
AddImage(run) ==
   NextSection([run EXCEPT
                  !.pdf = Draw(run.pdf, run.i, "image", margin, run.yPosition, <<>>),
                  !.yPosition = @ + run.img + Mm(10),
                  !.img = 0])

\* if (yPosition + height > pageHeight - 15) { pdf.addPage(); yPosition = 15 }
Fit(r) ==
   /\ At(r, {"imageFit", "chartFit"})
   /\ turn = r
   /\ LET run == runs[r]
      IN  IF Overflows(run.yPosition, run.img)
          THEN Update(r, [run EXCEPT !.pdf = addPage(@), !.yPosition = margin,
                                     !.pc = "addImage"], r)
          ELSE Update(r, AddImage(run), r)
   /\ UNCHANGED isDownloading

AddImageAfterBreak(r) ==
   /\ At(r, {"addImage"})
   /\ turn = r
   /\ Update(r, AddImage(runs[r]), r)
   /\ UNCHANGED isDownloading

\* A variant that advances by the estimate of 100 whatever autoTable says.
AfterTableByEstimate(run, startY, out) ==
   [run EXCEPT !.pdf = [Draw(run.pdf, run.i, "table", margin, startY, <<>>)
                          EXCEPT !.page = @ + out.pages,
                                 !.lastAutoTable = out.finalY],
               !.yPosition = @ + Mm(100)]

\* What the table branch does with autoTable's outcome.
AfterTable(run, startY, out) ==
   IF out.threw
   THEN [run EXCEPT !.yPosition = @ + Mm(50), !.capabilityErrors = @ + 1]
   ELSE LET drawn == [run EXCEPT
                        !.pdf = [Draw(run.pdf, run.i, "table", margin, startY, <<>>)
                                   EXCEPT !.page = @ + out.pages,
                                          !.lastAutoTable = out.finalY]]
        IN  IF drawn.pdf.lastAutoTable # 0
            THEN [drawn EXCEPT !.yPosition = drawn.pdf.lastAutoTable + Mm(12)]
            ELSE [drawn EXCEPT !.yPosition = @ + Mm(100)]

\* A table section: its heading and autoTable.
Table(r) ==
   /\ At(r, {"table"})
   /\ turn = r
   /\ LET run == runs[r]
          section == sections[run.resp][run.i]
          headed == WithHeading(run, section)
      IN  IF section.hasTable
          THEN \E out \in TableOutcomes(headed.yPosition) :
                  Update(r, NextSection(AfterTable(headed, headed.yPosition, out)), r)
          ELSE Update(r, NextSection(headed), r)
   /\ UNCHANGED isDownloading

\* A chart section: its heading, then await setTimeout(300).
Chart(r) ==
   /\ At(r, {"chart"})
   /\ turn = r
   /\ LET run == runs[r]
          section == sections[run.resp][run.i]
      IN  Update(r, [WithHeading(run, section) EXCEPT !.pc = "chartSettle"], 0)
   /\ UNCHANGED isDownloading

\* The 300 ms have passed: html2canvas is called and awaited.
ChartCapture(r) ==
   /\ At(r, {"chartSettle"})
   /\ turn = 0
   /\ LET run == AfterDelay(runs[r], runs[r].i, "delay300")
          element == RefElement(sectionRefs, run.resp, sections[run.resp][run.i])
      IN  Update(r, AwaitCapture(run, element, "awaitChart"), 0)
   /\ UNCHANGED isDownloading

\* The capture of a chart settles: a canvas, or a rejection caught by the
\* inner catch (yPosition += 50).
ChartSettled(r) ==
   /\ At(r, {"awaitChart"})
   /\ turn = 0
   /\ \/ \E h \in ImageHeights :
           Update(r, [Settled(runs[r]) EXCEPT !.pc = "chartFit", !.img = h], r)
      \/ Update(r, NextSection([Settled(runs[r]) EXCEPT
                                  !.yPosition = @ + Mm(50),
                                  !.capabilityErrors = @ + 1]), r)
   /\ UNCHANGED isDownloading

\* A variant whose run alerts after it has saved.
SavedAndAlerted(run) ==
   [run EXCEPT !.pdf = Draw(run.pdf, Len(sections[run.resp]) + 1, "timestamp",
                            margin, pageHeight - Mm(10), <<>>),
               !.saved = @ + 1,
               !.alerts = @ + 1,
               !.pc = "done"]

\* The timestamp, pdf.save, and the finally block.
Saved(run) ==
   [run EXCEPT !.pdf = Draw(run.pdf, Len(sections[run.resp]) + 1, "timestamp",
                            margin, pageHeight - Mm(10), <<>>),
               !.saved = @ + 1,
               !.pc = "done"]

Stamp(r) ==
   /\ At(r, {"stamp"})
   /\ turn = r
   /\ Update(r, Saved(runs[r]), 0)
   /\ isDownloading' = Finally(isDownloading, runs[r].resp)

\* A variant whose catch block raises no alert.
CaughtSilently(run) == [run EXCEPT !.pc = "done"]

\* catch (error) { alert(...) }
Caught(run) == [run EXCEPT !.alerts = @ + 1, !.pc = "done"]

\* The outer catch and the finally block.
Catch(r) ==
   /\ At(r, {"catch"})
   /\ turn = r
   /\ Update(r, Caught(runs[r]), 0)
   /\ isDownloading' = Finally(isDownloading, runs[r].resp)

RunIds == 1 .. MaxRuns

\* The first click on the download button of the response.
AcceptFirst == Len(runs) = 0 /\ Accept(First)

\* One response, one invocation of downloadMessagePDF.
Next ==
   \/ Mount(First)
   \/ AcceptFirst
   \/ Render(First)
   \/ \E r \in RunIds : Settle(r)
   \/ \E r \in RunIds : Dispatch(r)
   \/ \E r \in RunIds : Formatted(r)
   \/ \E r \in RunIds : Layout(r)
   \/ \E r \in RunIds : Image(r)
   \/ \E r \in RunIds : ImageSettled(r)
   \/ \E r \in RunIds : Fit(r)
   \/ \E r \in RunIds : AddImageAfterBreak(r)
   \/ \E r \in RunIds : Table(r)
   \/ \E r \in RunIds : Chart(r)
   \/ \E r \in RunIds : ChartCapture(r)
   \/ \E r \in RunIds : ChartSettled(r)
   \/ \E r \in RunIds : Stamp(r)
   \/ \E r \in RunIds : Catch(r)

Spec == Init /\ [][Next]_vars

\* Two responses, invocations at any moment between two tasks.
NextConc ==
   \/ \E resp \in Responses : Mount(resp)
   \/ \E resp \in Responses : Accept(resp)
   \/ \E resp \in Responses : Reject(resp)
   \/ \E resp \in Responses : Render(resp)
   \/ \E r \in RunIds : Settle(r)
   \/ \E r \in RunIds : Dispatch(r)
   \/ \E r \in RunIds : Formatted(r)
   \/ \E r \in RunIds : Layout(r)
   \/ \E r \in RunIds : Image(r)
   \/ \E r \in RunIds : ImageSettled(r)
   \/ \E r \in RunIds : Fit(r)
   \/ \E r \in RunIds : AddImageAfterBreak(r)
   \/ \E r \in RunIds : Table(r)
   \/ \E r \in RunIds : Chart(r)
   \/ \E r \in RunIds : ChartCapture(r)
   \/ \E r \in RunIds : ChartSettled(r)
   \/ \E r \in RunIds : Stamp(r)
   \/ \E r \in RunIds : Catch(r)

SpecConc == InitConc /\ [][NextConc]_vars

\* A step of downloadMessagePDF in run r: synchronous code that goes on,
\* or an awaited delay or capture that settles.
RunStep(r) ==
   \/ Settle(r) \/ Dispatch(r) \/ Formatted(r) \/ Layout(r) \/ Image(r)
   \/ ImageSettled(r) \/ Fit(r) \/ AddImageAfterBreak(r) \/ Table(r)
   \/ Chart(r) \/ ChartCapture(r) \/ ChartSettled(r) \/ Stamp(r) \/ Catch(r)

\* RunStep(r) is enabled: the run waits for a delay or a capture and no
\* synchronous code is running, or its own synchronous code is running.
Ready(r) ==
   /\ r <= Len(runs)
   /\ IF runs[r].pc \in {"settle", "awaitImage", "chartSettle", "awaitChart"}
      THEN turn = 0
      ELSE runs[r].pc # "done" /\ turn = r

\* The event loop runs every task that is ready, and every awaited delay
\* and capture settles: weak fairness of RunStep(r), WF_vars(RunStep(r)),
\* written out with Ready(r) for ENABLED <<RunStep(r)>>_vars.
Fairness == \A r \in RunIds : <>[](~Ready(r)) \/ []<><<RunStep(r)>>_vars

SpecLive == Spec /\ Fairness
----------------------------------------------------------------------------
(* The normalizer applied to bounded strings, once and then again.         *)

MaxNormLen == 3

\* a, the halves of U+1F4BC (briefcase, listed), U+2600 (stripped, not
\* listed), U+26A0 and U+FE0F (listed together), U+2B50 (listed, outside the
\* stripped ranges), U+1F600's low half (with 55357: stripped, not listed),
\* U+E000 (private use).
NormUnits == {97, 55357, 56508, 9728, 9888, 65039, 11088, 56832, 57344}

RECURSIVE StringsUpTo(_, _)
StringsUpTo(units, n) ==
   IF n = 0 THEN {<<>>}
   ELSE LET shorter == StringsUpTo(units, n - 1)
        IN  shorter \cup {Append(s, u) : s \in shorter, u \in units}

NormInputs == StringsUpTo(NormUnits, MaxNormLen) \cup {Undefined}

InitNorm ==
   /\ norm \in [pc : {"input"}, text : NormInputs, once : {<<>>}, twice : {<<>>}]
   /\ ParseIdle
   /\ FmtIdle
   /\ IdsIdle
   /\ sections = [resp \in Responses |-> <<>>]
   /\ answerLines = [resp \in Responses |-> 1]
   /\ InitIdle

NormalizeOnce ==
   /\ norm.pc = "input"
   /\ norm' = [norm EXCEPT !.pc = "once",
                           !.once = replaceEmojisForPDF(norm.text)]
   /\ UNCHANGED <<parse, fmt, ids, seqVars>>

NormalizeTwice ==
   /\ norm.pc = "once"
   /\ norm' = [norm EXCEPT !.pc = "twice",
                           !.twice = replaceEmojisForPDF(norm.once)]
   /\ UNCHANGED <<parse, fmt, ids, seqVars>>

NextNorm == NormalizeOnce \/ NormalizeTwice

SpecNorm == InitNorm /\ [][NextNorm]_vars

----------------------------------------------------------------------------
(* The parser applied to bounded texts.                                    *)

MaxParseLen == 4
MaxEmphLen == 2
MaxSpans == 3

\* a, a space, an asterisk, a hyphen, a tab, a newline, the digit 1, a
\* period and the bullet U+2022.
ParseUnits == {97, SPACE, ASTERISK, HYPHEN, TAB, NEWLINE, 49, PERIOD, BULLET}

\* d asterisks.
Stars(d) == [k \in 1 .. d |-> ASTERISK]

\* Texts without asterisk and newline, not empty.
EmphTexts == StringsUpTo(ParseUnits \ {ASTERISK, NEWLINE}, MaxEmphLen) \ {<<>>}

\* "*x*", "**x**", "***x***".
Emph(d, x) == Stars(d) \o x \o Stars(d)

EmphLines == {Emph(d, x) : d \in 1 .. 3, x \in EmphTexts}

\* An opening delimiter that is never closed, at the start of the line or
\* after "a ".
UnterminatedLines ==
   {p \o Stars(d) \o x : p \in {<<>>, <<97, SPACE>>}, d \in 1 .. 3, x \in EmphTexts}

\* A line made of spans: span kind 0 is the plain text "a b", kind d > 0 is
\* "c" between d asterisks; plain and emphasised spans alternate.
SpanText(d) == IF d = 0 THEN <<97, SPACE, 98>> ELSE <<99>>

SpanSeqs ==
   {s \in StringsUpTo(0 .. 3, MaxSpans) :
      /\ s # <<>>
      /\ \A k \in 1 .. Len(s) - 1 : (s[k] = 0) # (s[k + 1] = 0)}

RECURSIVE SpanLineFrom(_, _)
SpanLineFrom(s, k) ==
   IF k > Len(s) THEN <<>>
   ELSE (IF s[k] = 0 THEN SpanText(0) ELSE Emph(s[k], SpanText(s[k])))
        \o SpanLineFrom(s, k + 1)

SpanLine(s) == SpanLineFrom(s, 1)

\* "**Bold** and *italic* and ***both***"
BoldItalicExample ==
   <<42, 42, 66, 111, 108, 100, 42, 42, 32, 97, 110, 100, 32,
     42, 105, 116, 97, 108, 105, 99, 42, 32, 97, 110, 100, 32,
     42, 42, 42, 98, 111, 116, 104, 42, 42, 42>>

\* "• Item one\n\t• Sub item\n• Item two"
BulletExample ==
   <<8226, 32, 73, 116, 101, 109, 32, 111, 110, 101, 10,
     9, 8226, 32, 83, 117, 98, 32, 105, 116, 101, 109, 10,
     8226, 32, 73, 116, 101, 109, 32, 116, 119, 111>>

\* "1. Buy milk", also after a tab and spaces.
NumberedExamples ==
   {p \o <<49, 46, 32, 66, 117, 121, 32, 109, 105, 108, 107>> :
      p \in {<<>>, <<TAB>>, <<SPACE, SPACE>>}}

\* "- a **b**\n\nc": a bulleted line of two runs, an empty line, a plain line.
MixedExample ==
   <<HYPHEN, SPACE, 97, SPACE, ASTERISK, ASTERISK, 98, ASTERISK, ASTERISK,
     NEWLINE, NEWLINE, 99>>

\* "**a\nb", "***a\nb" and "a *b\nc": a line that ends inside a span that
\* is not closed, then a plain line.
UnclosedThenPlain ==
   {Stars(d) \o <<97, NEWLINE, 98>> : d \in 2 .. 3}
   \cup {<<97, SPACE, ASTERISK, 98, NEWLINE, 99>>}

ParseInputs ==
   StringsUpTo(ParseUnits, MaxParseLen) \cup EmphLines \cup UnterminatedLines
   \cup {SpanLine(s) : s \in SpanSeqs}
   \cup {BoldItalicExample, BulletExample, MixedExample} \cup NumberedExamples
   \cup UnclosedThenPlain
   \cup {Undefined}

InitParse ==
   /\ parse \in [pc : {"input"}, text : ParseInputs, segments : {<<>>}]
   /\ NormIdle
   /\ FmtIdle
   /\ IdsIdle
   /\ sections = [resp \in Responses |-> <<>>]
   /\ answerLines = [resp \in Responses |-> 1]
   /\ InitIdle

\* const segments = parseFormattedText(text), which may throw.
ParseText ==
   /\ parse.pc = "input"
   /\ parse' = LET cleanText == replaceEmojisForPDF(parse.text)
               IN  IF cleanText = Undefined
                   THEN [parse EXCEPT !.pc = "threw"]
                   ELSE [parse EXCEPT !.pc = "parsed",
                                      !.segments = PushLines(cleanText)]
   /\ UNCHANGED <<norm, fmt, ids, seqVars>>

NextParse == ParseText

SpecParse == InitParse /\ [][NextParse]_vars

----------------------------------------------------------------------------
(* parseFormattedText and addFormattedText applied to texts of a few lines. *)

MaxFmtLines == 3

\* An empty line, "a b", "- a", "\t- a b", "-" (a marker and nothing else),
\* "aaaaaaaa" (one word wider than every maxWidth below), "**a** b".
FmtLineChoices ==
   {<<>>,
    <<97, SPACE, 98>>,
    <<HYPHEN, SPACE, 97>>,
    <<TAB, HYPHEN, SPACE, 97, SPACE, 98>>,
    <<HYPHEN>>,
    <<97, 97, 97, 97, 97, 97, 97, 97>>,
    <<ASTERISK, ASTERISK, 97, ASTERISK, ASTERISK, SPACE, 98>>}

\* The lists of at most n lines, not empty.
RECURSIVE FmtLineLists(_)
FmtLineLists(n) ==
   IF n = 0 THEN {<<>>}
   ELSE LET shorter == FmtLineLists(n - 1)
        IN  shorter \cup {Append(l, c) : l \in shorter, c \in FmtLineChoices}

\* lines.join('\n')
RECURSIVE JoinLines(_, _)
JoinLines(lines, k) ==
   IF k > Len(lines) THEN <<>>
   ELSE IF k = Len(lines) THEN lines[k]
   ELSE lines[k] \o <<NEWLINE>> \o JoinLines(lines, k + 1)

FmtTexts == {JoinLines(l, 1) : l \in FmtLineLists(MaxFmtLines) \ {<<>>}}

\* maxWidth: the sequencer's pageWidth - 2 * margin, and a narrow column.
FmtWidths == {maxWidth, Mm(60)}

\* yPosition: the top of a page, near its bottom, and the lowest start the
\* sequencer gives a text: pageHeight - 30 and a heading.
FmtStarts == {margin, Mm(265), pageHeight - Mm(30) + Mm(11)}

\* The segment lists addFormattedText is given for a text: what
\* parseFormattedText returns, and, when the last line has runs, the same
\* list without its last line end.
FmtSegmentLists(text) ==
   LET segments == parseFormattedText(text)
       n == Len(segments)
   IN  {segments}
       \cup (IF n >= 2 /\ ~segments[n - 1].isNewline
             THEN {SubSeq(segments, 1, n - 1)} ELSE {})

InitFmt ==
   /\ fmt \in [pc : {"input"}, text : FmtTexts, maxWidth : FmtWidths,
               yPosition : FmtStarts, lay : {NoLayout}, pdf : {NewPdf}]
   /\ NormIdle
   /\ ParseIdle
   /\ IdsIdle
   /\ sections = [resp \in Responses |-> <<>>]
   /\ answerLines = [resp \in Responses |-> 1]
   /\ InitIdle

\* const segments = parseFormattedText(text) and the entry of
\* addFormattedText(pdf, segments, margin, yPosition, maxWidth, { lineHeight: 6.5 }).
FmtParse ==
   /\ fmt.pc = "input"
   /\ \E segments \in FmtSegmentLists(fmt.text) :
        fmt' = [fmt EXCEPT
                  !.pc = "layout",
                  !.lay = StartLayout(segments, margin, fmt.yPosition,
                                      fmt.maxWidth, textLineHeight)]
   /\ UNCHANGED <<norm, parse, ids, seqVars>>

\* One step of addFormattedText.
FmtLayout ==
   /\ fmt.pc = "layout"
   /\ ~LayoutDone(fmt.lay)
   /\ LET next == LayoutStep(fmt.lay, fmt.pdf, 1)
      IN  fmt' = [fmt EXCEPT !.lay = next.lay, !.pdf = next.pdf]
   /\ UNCHANGED <<norm, parse, ids, seqVars>>

\* addFormattedText has returned currentY.
FmtReturn ==
   /\ fmt.pc = "layout"
   /\ LayoutDone(fmt.lay)
   /\ fmt' = [fmt EXCEPT !.pc = "done"]
   /\ UNCHANGED <<norm, parse, ids, seqVars>>

NextFmt == FmtParse \/ FmtLayout \/ FmtReturn

SpecFmt == InitFmt /\ [][NextFmt]_vars

----------------------------------------------------------------------------
(* The prefixed section ids of two responses on their own.                 *)

MaxIdSections == 2

\* Response ids and section ids of the inputs
ResponseIds == {"resp-1", "resp-2", "resp-1-2"}
BaseIds == {"chart-1", "intro-text", "2-chart-1"}

\* The lists of at most n sections, with nothing but an id.
RECURSIVE IdLists(_)
IdLists(n) ==
   IF n = 0 THEN {<<>>}
   ELSE LET shorter == IdLists(n - 1)
        IN  shorter \cup {Append(l, [id |-> s]) :
                            l \in {x \in shorter : Len(x) = n - 1}, s \in BaseIds}

\* Those whose ids are different.
UniqueIdLists(n) ==
   {l \in IdLists(n) : \A j, k \in 1 .. Len(l) : j # k => l[j].id # l[k].id}

InitIds ==
   /\ NormIdle
   /\ ParseIdle
   /\ FmtIdle
   /\ \E a, b \in ResponseIds :
        /\ a # b
        /\ \E la, lb \in UniqueIdLists(MaxIdSections) :
              ids = [pc |-> "props", responseIds |-> <<a, b>>,
                     baseSections |-> <<la, lb>>, sectionsToRender |-> <<>>]
   /\ sections = [resp \in Responses |-> <<>>]
   /\ answerLines = [resp \in Responses |-> 1]
   /\ InitIdle

\* The two components compute their sectionsToRender.
PrefixIds ==
   /\ ids.pc = "props"
   /\ ids' = [ids EXCEPT
                !.pc = "rendered",
                !.sectionsToRender =
                   [c \in 1 .. 2 |-> sectionsToRender(ids.responseIds[c],
                                                      ids.baseSections[c])]]
   /\ UNCHANGED <<norm, parse, seqVars>>
   /\ UNCHANGED fmt

NextIds == PrefixIds

SpecIds == InitIds /\ [][NextIds]_vars
----------------------------------------------------------------------------
(* Properties.                                                             *)

Runs == 1 .. Len(runs)

\* A sequence of records is in block order.
InBlockOrder(log) == \A k \in 1 .. Len(log) - 1 : log[k].blk <= log[k + 1].blk

\* C1: in one run the blocks are processed one at a time in input order:
\* the draw calls and the awaited delays and captures are logged in block
\* order, none belongs to a block after the current one, and a capture in
\* flight is the current block's, with the function suspended on it.
C1_Sequential ==
   \A r \in Runs :
      LET run == runs[r]
      IN  /\ InBlockOrder(run.pdf.ops)
          /\ InBlockOrder(run.events)
          /\ \A k \in 1 .. Len(run.pdf.ops) : run.pdf.ops[k].blk <= run.i
          /\ \A k \in 1 .. Len(run.events) : run.events[k].blk <= run.i
          /\ Cardinality(run.inflight) <= 1
          /\ \A c \in run.inflight :
                c.blk = run.i /\ run.pc \in {"awaitImage", "awaitChart"}

\* A saved run that drew a captured image for block 1 and then block 2.
C1_Witness ==
   \E r \in Runs :
      /\ runs[r].saved = 1
      /\ \E k \in 1 .. Len(runs[r].pdf.ops) :
            runs[r].pdf.ops[k].blk = 1 /\ runs[r].pdf.ops[k].op = "image"
      /\ \E k \in 1 .. Len(runs[r].pdf.ops) : runs[r].pdf.ops[k].blk = 2

ActiveRuns(resp) == {r \in Runs : runs[r].resp = resp /\ Active(runs[r])}

\* C2: while an invocation on a response has not finished, no other
\* invocation on it gets past the guard: at most one run of a response is
\* in progress at any moment.
C2_SecondInvocationRejected ==
   \A resp \in Responses : Cardinality(ActiveRuns(resp)) <= 1

\* C3: when a run ends, saved or failed, isDownloading is false again;
\* and it is false whenever no run of the response is in progress, so the
\* next render's downloadMessagePDF passes the guard.
C3_GuardReset ==
   /\ [](\A resp \in Responses : ActiveRuns(resp) = {} => ~isDownloading[resp])
   /\ [][\A r \in Runs :
           Active(runs[r]) /\ ~Active(runs'[r])
              => ~isDownloading'[runs[r].resp]]_vars

\* A run that failed, and a later run of the same response accepted after it.
C3_Witness ==
   \E r, q \in Runs :
      /\ runs[r].pc = "done" /\ runs[r].alerts = 1
      /\ runs[q].resp = runs[r].resp
      /\ runs[q].prior >= 1
      /\ r < q

\* C4: y never decreases while the page stays the same, the page never
\* decreases, and after a page break made by the sequencer or by the text
\* layout engine (not inside autoTable) y is the top margin.
C4_CursorMonotone ==
   [][\A r \in Runs :
        LET a == runs[r]
            b == runs'[r]
        IN  /\ b.pdf.page >= a.pdf.page
            /\ b.pdf.page = a.pdf.page => Cursor(b) >= Cursor(a)
            /\ b.pdf.page > a.pdf.page /\ a.pc # "table" => Cursor(b) = margin]_vars

\* Just after a page break inside renderTextLine: the word is drawn at the
\* top margin of the new page.
C4_Witness ==
   \E r \in Runs :
      LET run == runs[r]
          n == Len(run.pdf.ops)
      IN  /\ run.pc = "layout"
          /\ run.pdf.page >= 2
          /\ run.lay.currentY = margin
          /\ n > 0
          /\ run.pdf.ops[n].op = "text"
          /\ run.pdf.ops[n].page = run.pdf.page
          /\ run.pdf.ops[n].y = margin

\* Run r is about to process a chart section whose element is missing.
MissingChartAt(r) ==
   /\ r <= Len(runs)
   /\ turn = r
   /\ runs[r].pc = "loop"
   /\ runs[r].i <= Len(sections[runs[r].resp])
   /\ LET section == sections[runs[r].resp][runs[r].i]
      IN  /\ section.type = "chart"
          /\ RefElement(sectionRefs, runs[r].resp, section) = NoElement

TextOrTable(run, j) ==
   LET section == sections[run.resp][j]
   IN  /\ section.type \in {"text", "table"}
       /\ ~Falsy(section.heading) \/ ~Falsy(section.content)

C6_CapabilityErrorsContinue ==
   [][\A r \in Runs :
        runs'[r].capabilityErrors > runs[r].capabilityErrors
           => /\ ~runs'[r].threw
              /\ runs'[r].pc = "loop"
              /\ runs'[r].i = runs[r].i + 1
              /\ runs'[r].yPosition > runs[r].yPosition]_vars

\* C7: a run that failed fatally raised exactly one failure signal and
\* never saved; after the throw nothing more is drawn and no block is
\* processed.
C7_FatalAborts ==
   /\ [](\A r \in Runs :
           /\ runs[r].alerts <= 1
           /\ runs[r].threw => runs[r].saved = 0
           /\ runs[r].threw /\ runs[r].pc = "done" => runs[r].alerts = 1
           /\ runs[r].alerts = 1 => runs[r].threw)
   /\ [][\A r \in Runs :
           runs[r].threw => /\ runs'[r].pdf = runs[r].pdf
                            /\ runs'[r].i = runs[r].i
                            /\ runs'[r].pc = "done"]_vars

\* A run ended by an error that escaped the rendering of a block.
C7_Witness ==
   \E r \in Runs :
      /\ runs[r].pc = "done"
      /\ runs[r].threw
      /\ runs[r].alerts = 1
      /\ runs[r].saved = 0
      /\ Len(runs[r].pdf.ops) > 0

\* The elements a run gave to html2canvas.
Captured(run) ==
   {run.events[k].el : k \in {n \in 1 .. Len(run.events) :
                                run.events[n].ev = "capture"}}

\* C8: a run of a response captures only elements that response
\* registered, also when another response has sections of the same
\* unprefixed id.
C8_OwnHandlesOnly ==
   \A r \in Runs : \A el \in Captured(runs[r]) : el.owner = runs[r].resp

\* Both responses are mounted with a section of the same unprefixed id,
\* and a run of one of them has captured that section's element.
C8_Witness ==
   \E r \in Runs :
      /\ \A resp \in Responses : mounted[resp]
      /\ \E el \in Captured(runs[r]) :
            /\ el.owner = runs[r].resp
            /\ \E resp \in Responses \ {runs[r].resp} :
                  \E k \in 1 .. Len(sections[resp]) :
                     /\ sections[resp][k].id = el.id
                     /\ sections[resp][k].attached

\* The captures of a response's runs that have started and not settled.
InFlight(resp) ==
   UNION {{<<r, c.blk>> : c \in runs[r].inflight} :
            r \in {q \in Runs : runs[q].resp = resp}}

\* C9: for one response at most one capture is in flight at any moment.
C9_OneCaptureInFlight ==
   \A resp \in Responses : Cardinality(InFlight(resp)) <= 1

\* C10: replaceEmojisForPDF is idempotent: normalizing the result of a
\* normalization again changes nothing, for every sequence of code units.
C10_Idempotent == norm.pc = "twice" => norm.twice = norm.once


\* C11: for an empty or undefined input replaceEmojisForPDF returns the
\* empty string, so that parseFormattedText does not throw on it.
C11_EmptyForEmptyOrUndefined ==
   norm.pc = "once" /\ Falsy(norm.text)
      => norm.once = <<>> /\ ~ParseThrows(norm.text)

\* Whether key occurs in the string s.
Occurs(s, key) == \E i \in 1 .. Len(s) : StartsAt(s, key, i)

\* Pictographs (U+1F300..U+1F9FF), miscellaneous symbols and dingbats
\* (U+2600..U+27BF) and the private-use area (U+E000..U+F8FF).
Undrawable(cp) == \/ cp >= 127744 /\ cp <= 129535
                  \/ cp >= 9728 /\ cp <= 10175
                  \/ cp >= 57344 /\ cp <= 63743

\* C12: the string replaceEmojisForPDF returns holds no glyph of
\* EMOJI_REPLACEMENTS and no pictograph, dingbat or private-use code point.
C12_NoUndrawableGlyph ==
   norm.pc = "once" /\ norm.once # Undefined
      => /\ \A k \in 1 .. Len(EMOJI_REPLACEMENTS) :
               ~Occurs(norm.once, EMOJI_REPLACEMENTS[k].emoji)
         /\ \A i \in 1 .. Len(norm.once) :
               ~Undrawable(CodePointAt(norm.once, i))

\* The runs of a list of segments: its segments that are no line ends, with
\* their text and emphasis.
IsRun(segment) == ~segment.isNewline

RunsOf(segments) ==
   LET runSegments == SelectSeq(segments, IsRun)
   IN  [k \in 1 .. Len(runSegments) |->
          Run(runSegments[k].text, runSegments[k].bold, runSegments[k].italic)]

\* C13: for every non-empty x without asterisks the line "***x***" parses
\* to exactly one run, with text x, bold and italic.
C13_TripleDelimiter ==
   \A x \in EmphTexts :
      parse.pc = "parsed" /\ parse.text = Emph(3, x)
         => RunsOf(parse.segments) = <<Run(x, TRUE, TRUE)>>

\* "***a 1***" has been parsed to the one run "a 1", bold and italic.
C13_Witness ==
   /\ parse.pc = "parsed"
   /\ parse.text = Emph(3, <<97, 49>>)
   /\ RunsOf(parse.segments) = <<Run(<<97, 49>>, TRUE, TRUE)>>

\* The runs the spans of a line stand for: plain text outside the pairs,
\* italic for one asterisk, bold for two, both for three.
ExpectedRuns(s) ==
   [k \in 1 .. Len(s) |->
      Run(SpanText(s[k]), s[k] \in {2, 3}, s[k] \in {1, 3})]

\* C14: a line of plain text and spans between pairs of one, two or three
\* asterisks parses to the runs of its spans in source order, also when the
\* line begins with a single-asterisk span; and
\* "**Bold** and *italic* and ***both***" parses to Bold (bold), " and ",
\* italic (italic), " and ", both (bold and italic).
C14_EmphasisRuns ==
   parse.pc = "parsed"
      => /\ \A s \in SpanSeqs :
               parse.text = SpanLine(s)
                  => RunsOf(parse.segments) = ExpectedRuns(s)
         /\ parse.text = BoldItalicExample
               => RunsOf(parse.segments) =
                     <<Run(<<66, 111, 108, 100>>, TRUE, FALSE),
                       Run(<<32, 97, 110, 100, 32>>, FALSE, FALSE),
                       Run(<<105, 116, 97, 108, 105, 99>>, FALSE, TRUE),
                       Run(<<32, 97, 110, 100, 32>>, FALSE, FALSE),
                       Run(<<98, 111, 116, 104>>, TRUE, TRUE)>>

\* The positions of the line ends in a list of segments.
RECURSIVE LineEnds(_, _)
LineEnds(segments, k) ==
   IF k > Len(segments) THEN <<>>
   ELSE (IF segments[k].isNewline THEN <<k>> ELSE <<>>)
        \o LineEnds(segments, k + 1)

\* The segments parseFormattedText pushed for the n-th line of its input:
\* those between the line end of line n - 1 and that of line n.
SegmentsOfLine(segments, n) ==
   LET ends == LineEnds(segments, 1)
       from == IF n = 1 THEN 1 ELSE ends[n - 1] + 1
   IN  SubSeq(segments, from, ends[n] - 1)

\* The lines of the text a parse was given.
ParsedLines == Split(parse.text, NEWLINE)

\* C15: a line that after its leading white space starts with digits, a
\* period and a white space character produces no bullet: none of its runs
\* has isBullet, each has indent 0.
C15_NumberedNoBullet ==
   parse.pc = "parsed"
      => \A n \in 1 .. Len(ParsedLines) :
            IsNumberedList(TrimStart(ParsedLines[n]))
               => \A k \in 1 .. Len(SegmentsOfLine(parse.segments, n)) :
                     LET run == SegmentsOfLine(parse.segments, n)[k]
                     IN  ~run.isBullet /\ run.indent = 0 /\ ~run.isSubBullet

\* "\t1. Buy milk" has been parsed to one plain run.
C15_Witness ==
   /\ parse.pc = "parsed"
   /\ parse.text = <<TAB, 49, 46, 32, 66, 117, 121, 32, 109, 105, 108, 107>>
   /\ Len(SegmentsOfLine(parse.segments, 1)) = 1
   /\ SegmentsOfLine(parse.segments, 1)[1].text
         = <<49, 46, 32, 66, 117, 121, 32, 109, 105, 108, 107>>

\* The n-th line of a parse is bulleted: its first run has isBullet.
IsBulletedLine(n) ==
   /\ Len(SegmentsOfLine(parse.segments, n)) > 0
   /\ SegmentsOfLine(parse.segments, n)[1].isBullet

\* The indents of the bulleted lines of a parse, in order.
RECURSIVE BulletIndentsFrom(_)
BulletIndentsFrom(n) ==
   IF n > Len(ParsedLines) THEN <<>>
   ELSE (IF IsBulletedLine(n)
         THEN <<SegmentsOfLine(parse.segments, n)[1].indent>> ELSE <<>>)
        \o BulletIndentsFrom(n + 1)

\* C16: every run of a bulleted line has indent SUB_INDENT when the line
\* begins with a tab and MAIN_INDENT when it does not, SUB_INDENT being
\* the larger; "• Item one\n\t• Sub item\n• Item two" parses to three
\* bulleted lines of indents MAIN_INDENT, SUB_INDENT, MAIN_INDENT.
C16_IndentByTab ==
   /\ SUB_INDENT > MAIN_INDENT
   /\ parse.pc = "parsed"
         => /\ \A n \in 1 .. Len(ParsedLines) :
                  IsBulletedLine(n)
                     => \A k \in 1 .. Len(SegmentsOfLine(parse.segments, n)) :
                           SegmentsOfLine(parse.segments, n)[k].indent
                              = IF ParsedLines[n] # <<>> /\ Head(ParsedLines[n]) = TAB
                                THEN SUB_INDENT ELSE MAIN_INDENT
            /\ parse.text = BulletExample
                  => BulletIndentsFrom(1) = <<MAIN_INDENT, SUB_INDENT, MAIN_INDENT>>

\* The example has been parsed: its second line is a bulleted line with
\* the run "Sub item".
C16_Witness ==
   /\ parse.pc = "parsed"
   /\ parse.text = BulletExample
   /\ IsBulletedLine(2)
   /\ SegmentsOfLine(parse.segments, 2)[1].text
         = <<83, 117, 98, 32, 105, 116, 101, 109>>
   /\ SegmentsOfLine(parse.segments, 2)[1].indent = SUB_INDENT

\* The texts of a sequence of runs, concatenated.
RECURSIVE TextOfRuns(_, _)
TextOfRuns(rs, k) ==
   IF k > Len(rs) THEN <<>> ELSE rs[k].text \o TextOfRuns(rs, k + 1)

\* C18: a line with an opening *, ** or *** that is never closed, followed
\* by a text x without white space at its ends, keeps the asterisks in the
\* text of its runs, and no run of it is bold or italic.
C18_UnterminatedLiteral ==
   \A p \in {<<>>, <<97, SPACE>>}, d \in 1 .. 3, x \in EmphTexts :
      parse.pc = "parsed" /\ Trim(x) = x /\ parse.text = p \o Stars(d) \o x
         => /\ TextOfRuns(RunsOf(parse.segments), 1) = Trim(parse.text)
            /\ \A k \in 1 .. Len(RunsOf(parse.segments)) :
                  /\ ~RunsOf(parse.segments)[k].bold
                  /\ ~RunsOf(parse.segments)[k].italic

\* None of the segments of a line is the first run of a bulleted line.
NonBulleted(segments) == \A k \in 1 .. Len(segments) : ~segments[k].isBullet

\* The draw calls a step added.
AddedOps(before, after) == SubSeq(after.ops, Len(before.ops) + 1, Len(after.ops))

\* C17: while addFormattedText lays out a non-bulleted line its indent is
\* 0, so that the line starts at xPosition, and no bullet glyph is drawn
\* for it, whatever lines came before.
C17_IndentReset ==
   /\ [](fmt.lay.line.active /\ NonBulleted(fmt.lay.line.segments)
            => /\ fmt.lay.currentBulletIndent = 0
               /\ fmt.lay.line.currentX >= fmt.lay.xPosition)
   /\ [][fmt'.lay.line.active /\ NonBulleted(fmt'.lay.line.segments)
            => \A k \in 1 .. Len(AddedOps(fmt.pdf, fmt'.pdf)) :
                  LET op == AddedOps(fmt.pdf, fmt'.pdf)[k]
                  IN  /\ op.op # "bullet"
                      /\ op.x >= fmt.lay.xPosition
                      /\ fmt.lay.line.s = 1 /\ fmt.lay.line.w = 1
                            => op.x = fmt.lay.xPosition]_vars

\* The first word of a non-bulleted line has been drawn at xPosition, after
\* a bulleted line and its bullet glyph.
C17_Witness ==
   /\ fmt.lay.line.active
   /\ NonBulleted(fmt.lay.line.segments)
   /\ Len(fmt.pdf.ops) >= 2
   /\ fmt.pdf.ops[1].op = "bullet"
   /\ fmt.pdf.ops[Len(fmt.pdf.ops)].op = "text"
   /\ fmt.pdf.ops[Len(fmt.pdf.ops)].x = fmt.lay.xPosition
   /\ fmt.lay.line.currentX > fmt.lay.xPosition

\* The lines of the text given to parseFormattedText and addFormattedText.
FmtLines == Split(fmt.text, NEWLINE)

\* The lines that are a bullet marker and nothing else.
MarkerOnlyLines ==
   {n \in 1 .. Len(FmtLines) :
      Trim(FmtLines[n]) \in {<<BULLET>>, <<HYPHEN>>, <<ASTERISK>>}}

\* The lines that start with a bullet marker.
MarkerLines ==
   {n \in 1 .. Len(FmtLines) :
      Trim(FmtLines[n]) # <<>>
         /\ Head(Trim(FmtLines[n])) \in {BULLET, HYPHEN, ASTERISK}}

BulletOps == {k \in 1 .. Len(fmt.pdf.ops) : fmt.pdf.ops[k].op = "bullet"}

\* C19: for a line that is a bullet marker and nothing else the parser
\* emits a run with empty text and isBullet, and the layout engine draws a
\* bullet glyph: at least one glyph for every line that starts with a marker.
C19_EmptyBulletDrawn ==
   fmt.pc = "done"
      => /\ \A n \in MarkerOnlyLines :
               \E k \in 1 .. Len(SegmentsOfLine(fmt.lay.segments, n)) :
                  LET run == SegmentsOfLine(fmt.lay.segments, n)[k]
                  IN  run.isBullet /\ run.text = <<>>
         /\ Cardinality(BulletOps) >= Cardinality(MarkerLines)

\* The end of the text a draw call draws.
OpEnd(op) == op.x + getTextWidth(op.str)

\* C20: every text renderTextLine draws ends at an x not greater than
\* xPosition + maxWidth.
C20_WithinMaxWidth ==
   \A k \in 1 .. Len(fmt.pdf.ops) :
      OpEnd(fmt.pdf.ops[k]) <= fmt.lay.xPosition + fmt.lay.maxWidth

\* The image draw calls a step of run r added for a chart block.
ChartImagesAdded(r) ==
   LET added == AddedOps(runs[r].pdf, runs'[r].pdf)
   IN  {k \in 1 .. Len(added) :
          /\ added[k].op = "image"
          /\ sections[runs[r].resp][added[k].blk].type = "chart"}

\* No draw call of the pdf is on the page of op: the page is new.
OnNewPage(pdf, op) == \A k \in 1 .. Len(pdf.ops) : pdf.ops[k].page < op.page

\* C21: a chart image of height h is drawn at y only if y + h <=
\* pageHeight - 15, or at the top margin of a page that a page break has
\* just opened; and when a table has ended at finalY = 250 (so that y is
\* 262) and a chart follows, a page break is made before the chart is drawn.
C21_ChartImageFits ==
   [][\A r \in Runs :
        LET run == runs[r]
            added == AddedOps(run.pdf, runs'[r].pdf)
        IN  /\ \A k \in ChartImagesAdded(r) :
                  \/ added[k].y + run.img <= pageHeight - Mm(15)
                  \/ /\ added[k].y = margin
                     /\ added[k].page > 1
                     /\ OnNewPage(run.pdf, added[k])
            /\ (/\ run.pc = "loop"
                /\ run.i <= Len(sections[run.resp])
                /\ run.i > 1
                /\ runs'[r].pc = "chart"
                /\ sections[run.resp][run.i - 1].type = "table"
                /\ run.pdf.lastAutoTable = Mm(250)
                /\ run.yPosition = Mm(250) + Mm(12))
               => /\ runs'[r].pdf.page = run.pdf.page + 1
                  /\ runs'[r].yPosition = margin]_vars

\* A chart image of height 120 drawn at the top of a new page, after its
\* heading was drawn on the page before: it did not fit under the heading.
C21_Witness ==
   \E r \in Runs :
      LET ops == runs[r].pdf.ops
          n == Len(ops)
      IN  /\ n >= 2
          /\ ops[n].op = "image"
          /\ sections[runs[r].resp][ops[n].blk].type = "chart"
          /\ ops[n].y = margin
          /\ ops[n].page = ops[n - 1].page + 1
          /\ ops[n - 1].blk = ops[n].blk

\* C22: the image of a chart block that has a heading is on the page of a
\* heading of that block drawn before it: when the image did not fit and a
\* page break was inserted before it, the heading was drawn again on the
\* new page.
C22_HeadingWithImage ==
   \A r \in Runs :
      LET ops == runs[r].pdf.ops
          base == sections[runs[r].resp]
      IN  \A k \in 1 .. Len(ops) :
             (/\ ops[k].op = "image"
              /\ base[ops[k].blk].type = "chart"
              /\ base[ops[k].blk].heading # <<>>)
             => \E j \in 1 .. k - 1 :
                   /\ ops[j].op = "heading"
                   /\ ops[j].blk = ops[k].blk
                   /\ ops[j].page = ops[k].page

\* The advance of the cursor over a heading and its rule.
HeadingAdvance == Mm(3) + Mm(8)

TablesAdded(r) ==
   LET added == AddedOps(runs[r].pdf, runs'[r].pdf)
   IN  {k \in 1 .. Len(added) : added[k].op = "table"}

CaptureEvents(run) == {k \in 1 .. Len(run.events) : run.events[k].ev = "capture"}

\* C25: in a run the 1500 ms delay has completed before the loop starts
\* and so before the first capture is made, and the capture of a chart
\* comes directly after the completed 300 ms delay of that chart.
C25_DelaysBeforeCaptures ==
   \A r \in Runs :
      LET run == runs[r]
          base == sections[run.resp]
      IN  /\ run.pc \notin {"new", "settle", "catch", "done"} /\ Len(base) > 0
             => Len(run.events) >= 1 /\ run.events[1].ev = "delay1500"
          /\ \A k \in CaptureEvents(run) :
                /\ k > 1
                /\ run.events[1].ev = "delay1500"
                /\ base[run.events[k].blk].type = "chart"
                   => /\ run.events[k - 1].ev = "delay300"
                      /\ run.events[k - 1].blk = run.events[k].blk

\* A run that captured a text section as an image and then a chart.
C25_Witness ==
   \E r \in Runs :
      LET run == runs[r]
          base == sections[run.resp]
      IN  \E j, k \in CaptureEvents(run) :
             /\ j < k
             /\ base[run.events[j].blk].type = "text"
             /\ base[run.events[k].blk].type = "chart"

FromCharts(base) == {k \in 1 .. Len(base) : base[k].id = "chart-" \o ToString(k - 1)}

\* C27: every entry i of a charts prop given without sections becomes a
\* section of type 'chart' with id chart-i, and a run that was saved has
\* captured each of them as a chart: after its 300 ms delay, and with its
\* image in the document unless the capture failed.
C27_ChartsBecomeSections ==
   \A r \in Runs :
      LET run == runs[r]
          base == sections[run.resp]
      IN  \A k \in FromCharts(base) :
             /\ base[k].type = "chart"
             /\ run.saved = 1
                => /\ \E e \in CaptureEvents(run) : run.events[e].blk = k
                   /\ \/ run.capabilityErrors > 0
                      \/ \E o \in 1 .. Len(run.pdf.ops) :
                            run.pdf.ops[o].blk = k /\ run.pdf.ops[o].op = "image"

\* The ids of a list of sections.
IdsOf(list) == {list[k].id : k \in 1 .. Len(list)}

\* C28: the prefixed section ids of two responses with different
\* responseIds, each with unique section ids, are disjoint.
C28_PrefixedIdsUnique ==
   ids.pc = "rendered"
      => IdsOf(ids.sectionsToRender[1]) \cap IdsOf(ids.sectionsToRender[2]) = {}

\* C29: addFormattedText draws no text below the bottom margin of the
\* page, pageHeight - 15: a line that would be is drawn on a new page,
\* however many short or blank lines came before it.
C29_AboveBottomLimit ==
   \A k \in 1 .. Len(fmt.pdf.ops) : fmt.pdf.ops[k].y <= pageHeight - Mm(15)

\* Run r is at the head of the loop body for a section.
AtBlockStart(r) == runs[r].pc = "loop" /\ runs[r].i <= Len(sections[runs[r].resp])

\* The step of run r breaks the page exactly when y is beyond limit, and
\* then leaves y at the top margin.
BreaksBeyond(r, limit) ==
   /\ runs'[r].pdf.page > runs[r].pdf.page <=> runs[r].yPosition > limit
   /\ runs'[r].pdf.page > runs[r].pdf.page
         => runs'[r].pdf.page = runs[r].pdf.page + 1 /\ runs'[r].yPosition = margin
   /\ runs'[r].pdf.page = runs[r].pdf.page => runs'[r].yPosition = runs[r].yPosition

BulletsAdded ==
   LET added == AddedOps(fmt.pdf, fmt'.pdf)
   IN  {k \in 1 .. Len(added) : added[k].op = "bullet"}

\* C31: the bullet glyph of a bulleted line is drawn exactly once, when
\* renderTextLine starts the line, at xPosition + 2 for the MAIN indent and
\* xPosition + 12 for the SUB indent; no glyph is drawn while the words of
\* the line are drawn, however often the line wraps or breaks the page.
C31_BulletOnce ==
   [][LET added == AddedOps(fmt.pdf, fmt'.pdf)
          entering == ~fmt.lay.line.active /\ fmt'.lay.line.active
      IN  /\ fmt.lay.line.active => BulletsAdded = {}
          /\ entering /\ fmt'.lay.currentBulletIndent > 0
                => Cardinality(BulletsAdded) = 1
          /\ \A k \in BulletsAdded :
                added[k].x = IF fmt'.lay.currentBulletIndent = Mm(SUB_INDENT)
                             THEN fmt.lay.xPosition + Mm(12)
                             ELSE fmt.lay.xPosition + Mm(2)]_vars

\* addFormattedText is at a line-end marker with no run pending.
AtEmptyLine ==
   /\ fmt.pc = "layout"
   /\ ~fmt.lay.line.active
   /\ fmt.lay.index <= Len(fmt.lay.segments)
   /\ fmt.lay.segments[fmt.lay.index].isNewline
   /\ fmt.lay.currentLineSegments = <<>>

\* C32: at a line-end marker with no run pending addFormattedText adds
\* lineHeight to currentY and goes on to the next segment: it draws
\* nothing, adds no page, and leaves the indent and the (empty) list of
\* pending runs as they were.
C32_EmptyLineFrame ==
   [][AtEmptyLine /\ fmt' # fmt
        => /\ fmt'.lay = [fmt.lay EXCEPT !.currentY = @ + fmt.lay.lineHeight,
                                         !.index = @ + 1]
           /\ fmt'.pdf = fmt.pdf
           /\ fmt'.pc = fmt.pc]_vars

\* The text starts with two empty lines: both markers have been passed,
\* nothing is drawn and currentY is two line heights below the start.
C32_Witness ==
   /\ fmt.pc = "layout"
   /\ fmt.lay.index = 3
   /\ fmt.lay.segments[1].isNewline
   /\ fmt.lay.segments[2].isNewline
   /\ fmt.pdf.ops = <<>>
   /\ fmt.pdf.page = 1
   /\ fmt.lay.currentY = fmt.yPosition + 2 * textLineHeight

\* C33: parseFormattedText returns one line-end marker per line of its
\* input and ends with one; the segments before the n-th marker and after
\* the one before it are the runs of the n-th line, those the line gives
\* when it is parsed alone: they have one indent, only the first may have
\* isBullet, and a line of white space has none.
C33_OneMarkerPerLine ==
   parse.pc = "parsed"
      => /\ Len(LineEnds(parse.segments, 1)) = Len(ParsedLines)
         /\ parse.segments[Len(parse.segments)].isNewline
         /\ \A n \in 1 .. Len(ParsedLines) :
               LET rs == SegmentsOfLine(parse.segments, n)
                   alone == parseFormattedText(ParsedLines[n])
               IN  /\ rs = SubSeq(alone, 1, Len(alone) - 1)
                   /\ \A k \in 1 .. Len(rs) :
                         /\ ~rs[k].isNewline
                         /\ rs[k].indent = rs[1].indent
                         /\ k > 1 => ~rs[k].isBullet
                   /\ Trim(ParsedLines[n]) = <<>> => rs = <<>>

\* A parse of three lines: a bulleted line of two runs, an empty line and
\* a line of one run.
C33_Witness ==
   /\ parse.pc = "parsed"
   /\ Len(ParsedLines) = 3
   /\ Len(SegmentsOfLine(parse.segments, 1)) = 2
   /\ SegmentsOfLine(parse.segments, 1)[1].isBullet
   /\ SegmentsOfLine(parse.segments, 2) = <<>>
   /\ Len(SegmentsOfLine(parse.segments, 3)) = 1

\* Run r has ended in exactly one of the two outcomes: the document saved
\* once, after the last section, and no alert; or one alert and no save.
EndedOneWay(r) ==
   \/ /\ runs[r].saved = 1
      /\ runs[r].alerts = 0
      /\ runs[r].i = Len(sections[runs[r].resp]) + 1
   \/ /\ runs[r].saved = 0
      /\ runs[r].alerts = 1

\* C34: every run of downloadMessagePDF that passed the guard ends, when
\* every awaited delay and capture settles; a run that has ended has saved
\* the document once, after the last section was processed, or has raised
\* one alert, never both and never neither; before it ends it has done
\* neither.
C34_EndsOneWay ==
   /\ \A r \in RunIds : (r <= Len(runs)) ~> (r <= Len(runs) /\ runs[r].pc = "done")
   /\ [](\A r \in Runs :
           /\ runs[r].pc = "done" => EndedOneWay(r)
           /\ runs[r].pc # "done" => runs[r].saved = 0 /\ runs[r].alerts = 0)

\* A run that ended with an alert after its first section was processed,
\* and whose document holds what was drawn until then.
C34_Witness ==
   \E r \in Runs :
      /\ runs[r].pc = "done"
      /\ runs[r].alerts = 1
      /\ runs[r].saved = 0
      /\ runs[r].i = 2
      /\ Len(sections[runs[r].resp]) = 2

\* The words renderTextLine is to draw for a list of segments: those of
\* segment.text.split(' ') for every segment with a text, in order.
RECURSIVE WordsOf(_, _)
WordsOf(segments, k) ==
   IF k > Len(segments) THEN <<>>
   ELSE (IF segments[k].isNewline \/ segments[k].text = <<>> THEN <<>>
         ELSE Split(segments[k].text, SPACE))
        \o WordsOf(segments, k + 1)

\* The words the text draw calls drew, without the space put before a word.
RECURSIVE WordsDrawn(_, _)
WordsDrawn(ops, k) ==
   IF k > Len(ops) THEN <<>>
   ELSE (IF ops[k].op # "text" THEN <<>>
         ELSE IF ops[k].str # <<>> /\ Head(ops[k].str) = SPACE
         THEN <<Tail(ops[k].str)>>
         ELSE <<ops[k].str>>)
        \o WordsDrawn(ops, k + 1)

\* The segment list of the layout does not end with a line end.
OpenEnded ==
   /\ Len(fmt.lay.segments) > 0
   /\ ~fmt.lay.segments[Len(fmt.lay.segments)].isNewline

\* C35: when addFormattedText has returned, the words drawn are the words
\* of the runs of its segment list, each once and in the order of the
\* list, whether lines wrapped or broke the page and whether or not the
\* list ends with a line end; while it runs, the words drawn so far are
\* the first of them.
C35_EveryWordOnce ==
   LET words == WordsOf(fmt.lay.segments, 1)
       drawn == WordsDrawn(fmt.pdf.ops, 1)
   IN  /\ fmt.pc = "done" => drawn = words
       /\ fmt.pc = "layout"
             => Len(drawn) <= Len(words) /\ drawn = SubSeq(words, 1, Len(drawn))

\* addFormattedText has returned after a page break inside a line, for a
\* segment list without a last line end, and has drawn three words or more.
C35_Witness ==
   /\ fmt.pc = "done"
   /\ OpenEnded
   /\ fmt.pdf.page >= 2
   /\ Len(WordsDrawn(fmt.pdf.ops, 1)) >= 3

\* The n-th line of a parse ends with a run in a span: its last run is bold
\* or italic and the line does not end with an asterisk.
EndsInSpan(n) ==
   LET rs == SegmentsOfLine(parse.segments, n)
       line == Trim(ParsedLines[n])
   IN  /\ Len(rs) > 0
       /\ rs[Len(rs)].bold \/ rs[Len(rs)].italic
       /\ line[Len(line)] # ASTERISK

\* C36: the emphasis of a line's runs comes from the asterisks of that line
\* alone, whatever the lines before it, also after a line that ends inside
\* a span: a line without an asterisk has no bold and no italic run, its
\* first run included, and a line without two adjacent asterisks has no
\* bold run.
C36_NoCarryOver ==
   parse.pc = "parsed"
      => \A n \in 1 .. Len(ParsedLines) :
            LET rs == SegmentsOfLine(parse.segments, n)
                line == ParsedLines[n]
            IN  /\ (\A i \in 1 .. Len(line) : line[i] # ASTERISK)
                      => \A k \in 1 .. Len(rs) : ~rs[k].bold /\ ~rs[k].italic
                /\ (\A i \in 1 .. Len(line) - 1 :
                       line[i] # ASTERISK \/ line[i + 1] # ASTERISK)
                      => \A k \in 1 .. Len(rs) : ~rs[k].bold

\* A parse whose first line ends inside a bold span and whose second line is
\* one run, plain.
C36_Witness ==
   /\ parse.pc = "parsed"
   /\ Len(ParsedLines) = 2
   /\ EndsInSpan(1)
   /\ SegmentsOfLine(parse.segments, 1)[1].bold
   /\ Len(SegmentsOfLine(parse.segments, 2)) = 1
   /\ ~SegmentsOfLine(parse.segments, 2)[1].bold
   /\ ~SegmentsOfLine(parse.segments, 2)[1].italic
====
